---- MODULE Spec2Model ----
(***************************************************************************)
(* Model of the DefraDB HTTP client samples (http/rust/src):               *)
(*   - get_document_ids, the decoder of the line-oriented event stream     *)
(*     (collection_operations.rs);                                         *)
(*   - the peer-to-peer request wrappers and the classification of their   *)
(*     failures by the orchestration (p2p_networking.rs);                  *)
(*   - main of p2p_networking.rs, step by step, against two nodes.         *)
(*                                                                         *)
(* Text is a sequence of one-character strings, so that splitting into     *)
(* lines, trimming, prefix tests, JSON decoding and message formatting are *)
(* computed character by character, as the code computes them.             *)
(***************************************************************************)
EXTENDS Integers, Sequences, FiniteSets, TLC

VARIABLES
    pc,        \* decoder call: "call" (request issued) or "done" (returned)
    resp,      \* the answer of the node to GET /collections/{name}
    emitted,   \* the stream lines the node emitted (ground truth of resp.text)
    result,    \* what get_document_ids returned
    colmain,   \* main of collection_operations.rs: its step, how it ended,
               \* and the requests for one document it sent
    wpc,       \* p2p session: "run", or "aborted" once a wrapper panicked
    reps,      \* per node: the collections of its replicator to the other node
    replicators, \* per node: the replicators it holds, one record per target
    pcols,     \* per node: its peer collections (collection gating set)
    pdocs,     \* per node: its peer documents (document gating set)
    call,      \* the last wrapper call: operation, node, answer, outcome
    class,     \* how main classified the last add_replicator outcome
    nCalls,    \* number of wrapper calls of the session
    tasks,     \* per node: the task that runs wrapper calls on it concurrently
    mpc,       \* main: the index of the next step of Program
    exit,      \* main: "run", or how it ended ("ok", "err", "panic", "killed")
    peers,     \* main: node1_peer_info and node2_peer_info
    kept_ids,  \* main: product_doc_id and message_doc_id
    verdict,   \* main: what the last verification query led it to print
    log        \* main: the requests sent and the sleeps, in order

vars == <<pc, resp, emitted, result, colmain, wpc, reps, replicators, pcols,
          pdocs, call, class, nCalls,
          tasks, mpc, exit, peers, kept_ids, verdict, log>>

decVars == <<pc, resp, emitted, result, colmain>>
p2pVars == <<wpc, reps, replicators, pcols, pdocs, call, class, nCalls, tasks>>
mainVars == <<mpc, exit, peers, kept_ids, verdict, log>>

----------------------------------------------------------------------------
(* Characters and text                                                     *)

Q == "\""
NL == "\n"
CR == "\r"
TAB == "\t"
SP == " "

\* &s[i..] (1-based, inclusive) ; empty when i > Len(s).
From(s, i) == IF i > Len(s) THEN <<>> ELSE SubSeq(s, i, Len(s))

\* str::starts_with
starts_with(s, p) == Len(p) <= Len(s) /\ SubSeq(s, 1, Len(p)) = p

\* str::ends_with
ends_with(s, p) ==
    Len(p) <= Len(s) /\ SubSeq(s, Len(s) - Len(p) + 1, Len(s)) = p

\* str::contains
contains(s, p) ==
    \E i \in 1..(Len(s) - Len(p) + 1) : SubSeq(s, i, i + Len(p) - 1) = p

\* str::strip_prefix(p).unwrap_or("")
strip_prefix_or_empty(s, p) ==
    IF starts_with(s, p) THEN From(s, Len(p) + 1) ELSE <<>>

RECURSIVE TrimStartWhile(_, _)
TrimStartWhile(s, cs) ==
    IF s # <<>> /\ Head(s) \in cs THEN TrimStartWhile(Tail(s), cs) ELSE s

RECURSIVE TrimEndWhile(_, _)
TrimEndWhile(s, cs) ==
    IF s # <<>> /\ s[Len(s)] \in cs
    THEN TrimEndWhile(SubSeq(s, 1, Len(s) - 1), cs)
    ELSE s

\* str::trim
trim(s) == TrimEndWhile(TrimStartWhile(s, {SP, TAB, CR, NL}), {SP, TAB, CR, NL})

\* str::trim_matches(c): every leading and every trailing c is removed.
trim_matches(s, c) == TrimEndWhile(TrimStartWhile(s, {c}), {c})

\* Index of the first NL of s at or after i, or Len(s) + 1.
RECURSIVE NextNL(_, _)
NextNL(s, i) ==
    IF i > Len(s) \/ s[i] = NL THEN i ELSE NextNL(s, i + 1)

\* str::lines: split at "\n"; a "\r" right before the "\n" is dropped with it;
\* a final line ending produces no further (empty) line.
RECURSIVE lines(_)
lines(s) ==
    IF s = <<>> THEN <<>>
    ELSE LET j == NextNL(s, 1)
             raw == SubSeq(s, 1, j - 1)
             line == IF j <= Len(s) /\ raw # <<>> /\ raw[Len(raw)] = CR
                     THEN SubSeq(raw, 1, Len(raw) - 1)
                     ELSE raw
         IN <<line>> \o lines(From(s, j + 1))

\* [T]::join(sep)
RECURSIVE join(_, _)
join(ss, sep) ==
    IF ss = <<>> THEN <<>>
    ELSE IF Len(ss) = 1 THEN ss[1]
    ELSE ss[1] \o sep \o join(Tail(ss), sep)

----------------------------------------------------------------------------
(* serde_json::from_str for the two derived structs.  The text is parsed   *)
(* into a value, then the derived Deserialize of the struct is applied.    *)
(* Backslash escapes, signs, fractions and exponents are outside the        *)
(* characters of the model; a number is a run of digits.                   *)

JsonWs == {SP, TAB, CR, NL}

RECURSIVE SkipWs(_, _)
SkipWs(s, i) ==
    IF i <= Len(s) /\ s[i] \in JsonWs THEN SkipWs(s, i + 1) ELSE i

Fail == [ok |-> FALSE, pos |-> 0, val |-> [t |-> "none"]]

\* s[i] is the opening quote; control characters may not occur in a string.
RECURSIVE ScanString(_, _, _)
ScanString(s, i, acc) ==
    IF i > Len(s) THEN Fail
    ELSE IF s[i] = Q
         THEN [ok |-> TRUE, pos |-> i + 1, val |-> [t |-> "str", s |-> acc]]
    ELSE IF s[i] \in {TAB, CR, NL, "\\"} THEN Fail
    ELSE ScanString(s, i + 1, Append(acc, s[i]))

Digits == {"0","1","2","3","4","5","6","7","8","9"}

\* The digits of a number starting at s[i]: a leading zero stands alone.
RECURSIVE ScanDigits(_, _, _)
ScanDigits(s, i, acc) ==
    IF i <= Len(s) /\ s[i] \in Digits /\ acc # <<"0">>
    THEN ScanDigits(s, i + 1, Append(acc, s[i]))
    ELSE [ok |-> TRUE, pos |-> i, val |-> [t |-> "num", d |-> acc]]

\* A minus sign before the digits of a number.
Negated(r) == [r EXCEPT !.val.t = "neg"]

Literals == << <<"t","r","u","e">>, <<"f","a","l","s","e">>, <<"n","u","l","l">> >>

RECURSIVE ParseValue(_, _)
RECURSIVE ParseMembers(_, _, _)
RECURSIVE ParseElements(_, _, _)

\* One JSON value starting at s[i] (whitespace already skipped).
ParseValue(s, i) ==
    IF i > Len(s) THEN Fail
    ELSE IF s[i] = Q THEN ScanString(s, i + 1, <<>>)
    ELSE IF s[i] = "{"
         THEN LET j == SkipWs(s, i + 1)
              IN IF j <= Len(s) /\ s[j] = "}"
                 THEN [ok |-> TRUE, pos |-> j + 1,
                       val |-> [t |-> "map", m |-> <<>>]]
                 ELSE ParseMembers(s, j, <<>>)
    ELSE IF s[i] = "["
         THEN LET j == SkipWs(s, i + 1)
              IN IF j <= Len(s) /\ s[j] = "]"
                 THEN [ok |-> TRUE, pos |-> j + 1,
                       val |-> [t |-> "seq", e |-> <<>>]]
                 ELSE ParseElements(s, j, <<>>)
    ELSE IF s[i] \in Digits THEN ScanDigits(s, i, <<>>)
    ELSE IF s[i] = "-"
         THEN IF i < Len(s) /\ s[i + 1] \in Digits
              THEN Negated(ScanDigits(s, i + 1, <<>>)) ELSE Fail
    ELSE IF \E k \in 1..3 : starts_with(From(s, i), Literals[k])
         THEN LET k == CHOOSE k \in 1..3 : starts_with(From(s, i), Literals[k])
              IN [ok |-> TRUE, pos |-> i + Len(Literals[k]),
                  val |-> [t |-> "lit"]]
    ELSE Fail

\* "key" : value { , "key" : value } "}" starting at s[i].
ParseMembers(s, i, acc) ==
    IF i > Len(s) \/ s[i] # Q THEN Fail
    ELSE LET k == ScanString(s, i + 1, <<>>)
         IN IF ~k.ok THEN Fail
            ELSE LET c == SkipWs(s, k.pos)
                 IN IF c > Len(s) \/ s[c] # ":" THEN Fail
                    ELSE LET v == ParseValue(s, SkipWs(s, c + 1))
                         IN IF ~v.ok THEN Fail
                            ELSE LET n == SkipWs(s, v.pos)
                                     acc2 == Append(acc, <<k.val.s, v.val>>)
                                 IN IF n > Len(s) THEN Fail
                                    ELSE IF s[n] = "}"
                                    THEN [ok |-> TRUE, pos |-> n + 1,
                                          val |-> [t |-> "map", m |-> acc2]]
                                    ELSE IF s[n] = ","
                                    THEN ParseMembers(s, SkipWs(s, n + 1), acc2)
                                    ELSE Fail

\* value { , value } "]" starting at s[i].
ParseElements(s, i, acc) ==
    LET v == ParseValue(s, i)
    IN IF ~v.ok THEN Fail
       ELSE LET n == SkipWs(s, v.pos)
                acc2 == Append(acc, v.val)
            IN IF n > Len(s) THEN Fail
               ELSE IF s[n] = "]"
               THEN [ok |-> TRUE, pos |-> n + 1,
                     val |-> [t |-> "seq", e |-> acc2]]
               ELSE IF s[n] = ","
               THEN ParseElements(s, SkipWs(s, n + 1), acc2)
               ELSE Fail

\* The whole text is one value, with nothing but whitespace around it.
ParseJson(s) ==
    LET v == ParseValue(s, SkipWs(s, 1))
    IN IF v.ok /\ SkipWs(s, v.pos) = Len(s) + 1 THEN v ELSE Fail

\* The values given to key in the members of a map, in order.
RECURSIVE ValuesOf(_, _)
ValuesOf(m, key) ==
    IF m = <<>> THEN <<>>
    ELSE (IF m[1][1] = key THEN <<m[1][2]>> ELSE <<>>) \o ValuesOf(Tail(m), key)

\* A String field of a derived struct: present once, and a string.  Unknown
\* members are ignored; a missing or a repeated member is an error.
FieldOk(m, key) ==
    LET vs == ValuesOf(m, key) IN Len(vs) = 1 /\ vs[1].t = "str"

Field(m, key) == ValuesOf(m, key)[1].s

DOCID == <<"d","o","c","I","D">>
ERROR == <<"e","r","r","o","r">>

NoRecord == [ok |-> FALSE, doc_id |-> <<>>, error |-> <<>>]

\* serde_json::from_str::<DocIDResult>: a map with the members docID and
\* error, or a sequence of exactly the two strings in that order.
DocIDResultOf(v) ==
    IF ~v.ok THEN NoRecord
    ELSE IF v.val.t = "map"
    THEN IF FieldOk(v.val.m, DOCID) /\ FieldOk(v.val.m, ERROR)
         THEN [ok |-> TRUE, doc_id |-> Field(v.val.m, DOCID),
               error |-> Field(v.val.m, ERROR)]
         ELSE NoRecord
    ELSE IF v.val.t = "seq"
    THEN IF Len(v.val.e) = 2 /\ v.val.e[1].t = "str" /\ v.val.e[2].t = "str"
         THEN [ok |-> TRUE, doc_id |-> v.val.e[1].s, error |-> v.val.e[2].s]
         ELSE NoRecord
    ELSE NoRecord

ParseDocIDResult(s) == DocIDResultOf(ParseJson(s))

NoError == [ok |-> FALSE, error |-> <<>>]

\* serde_json::from_str::<DefraError>: a map with the member error, or a
\* sequence of exactly one string.
DefraErrorOf(v) ==
    IF ~v.ok THEN NoError
    ELSE IF v.val.t = "map"
    THEN IF FieldOk(v.val.m, ERROR)
         THEN [ok |-> TRUE, error |-> Field(v.val.m, ERROR)]
         ELSE NoError
    ELSE IF v.val.t = "seq"
    THEN IF Len(v.val.e) = 1 /\ v.val.e[1].t = "str"
         THEN [ok |-> TRUE, error |-> v.val.e[1].s]
         ELSE NoError
    ELSE NoError

ParseDefraError(s) == DefraErrorOf(ParseJson(s))

\* The number a run of digits denotes.
DigitValue(c) ==
    CASE c = "0" -> 0 [] c = "1" -> 1 [] c = "2" -> 2 [] c = "3" -> 3
      [] c = "4" -> 4 [] c = "5" -> 5 [] c = "6" -> 6 [] c = "7" -> 7
      [] c = "8" -> 8 [] c = "9" -> 9

RECURSIVE NumberOf(_, _)
NumberOf(d, acc) ==
    IF d = <<>> THEN acc ELSE NumberOf(Tail(d), 10 * acc + DigitValue(Head(d)))

\* Deserialize of String, Vec<String> and u8 from a value.
IsString(v) == v.t = "str"
IsStringVec(v) == v.t = "seq" /\ \A i \in DOMAIN v.e : v.e[i].t = "str"
StringVec(v) == [i \in DOMAIN v.e |-> v.e[i].s]
\* IsU8 taking any number without a sign.
IsU8_any(v) == v.t = "num"

IsU8(v) == v.t = "num" /\ Len(v.d) <= 3 /\ NumberOf(v.d, 0) <= 255

\* A field of a derived struct read from a map: present once.
Has(m, key) == Len(ValuesOf(m, key)) = 1
Get(m, key) == ValuesOf(m, key)[1]

\* The names of the fields of the structs, as renamed.
F_ID == <<"I","D">>
F_Addresses == <<"A","d","d","r","e","s","s","e","s">>
F_Info == <<"I","n","f","o">>
F_Collections == <<"C","o","l","l","e","c","t","i","o","n","s">>
F_collectionName == <<"c","o","l","l","e","c","t","i","o","n","N","a","m","e">>
F_docIDs == <<"d","o","c","I","D","s">>
F_timeout == <<"t","i","m","e","o","u","t">>
F_CollectionIDs == <<"C","o","l","l","e","c","t","i","o","n","I","D","s">>
F_Status == <<"S","t","a","t","u","s">>
F_LastStatusChange == <<"L","a","s","t","S","t","a","t","u","s","C","h","a","n","g","e">>

\* The derived Deserialize of PeerInfo from a value: a map with ID and
\* Addresses, or a sequence of the two.
IsPeerInfo(v) ==
    IF v.t = "map"
    THEN /\ Has(v.m, F_ID) /\ IsString(Get(v.m, F_ID))
         /\ Has(v.m, F_Addresses)
         /\ IsStringVec(Get(v.m, F_Addresses))
    ELSE /\ v.t = "seq" /\ Len(v.e) = 2
         /\ IsString(v.e[1]) /\ IsStringVec(v.e[2])

PeerInfoOf(v) ==
    IF v.t = "map"
    THEN [id |-> Get(v.m, F_ID).s,
          addresses |-> StringVec(Get(v.m, F_Addresses))]
    ELSE [id |-> v.e[1].s, addresses |-> StringVec(v.e[2])]

\* The derived Deserialize of Replicator from a value.
IsReplicator(v) ==
    IF v.t = "map"
    THEN /\ Has(v.m, F_Info) /\ IsPeerInfo(Get(v.m, F_Info))
         /\ Has(v.m, F_CollectionIDs) /\ IsStringVec(Get(v.m, F_CollectionIDs))
         /\ Has(v.m, F_Status) /\ IsU8(Get(v.m, F_Status))
         /\ Has(v.m, F_LastStatusChange) /\ IsString(Get(v.m, F_LastStatusChange))
    ELSE /\ v.t = "seq" /\ Len(v.e) = 4
         /\ IsPeerInfo(v.e[1]) /\ IsStringVec(v.e[2])
         /\ IsU8(v.e[3]) /\ IsString(v.e[4])

ReplicatorOf(v) ==
    IF v.t = "map"
    THEN [info |-> PeerInfoOf(Get(v.m, F_Info)),
          collection_ids |-> StringVec(Get(v.m, F_CollectionIDs)),
          status |-> NumberOf(Get(v.m, F_Status).d, 0),
          last_status_change |-> Get(v.m, F_LastStatusChange).s]
    ELSE [info |-> PeerInfoOf(v.e[1]), collection_ids |-> StringVec(v.e[2]),
          status |-> NumberOf(v.e[3].d, 0), last_status_change |-> v.e[4].s]

IsReplicatorVec(v) == v.t = "seq" /\ \A i \in DOMAIN v.e : IsReplicator(v.e[i])
ReplicatorVec(v) == [i \in DOMAIN v.e |-> ReplicatorOf(v.e[i])]

\* serde_json::Value: Index by a key gives the last member of that name of
\* an object, and Null otherwise; get gives None otherwise.
Null == [t |-> "lit"]
HasKey(v, key) == v.t = "map" /\ ValuesOf(v.m, key) # <<>>
Index(v, key) ==
    IF HasKey(v, key)
    THEN ValuesOf(v.m, key)[Len(ValuesOf(v.m, key))]
    ELSE Null

\* Value::as_str().unwrap_or("") and Value::as_array().unwrap_or(&vec![]).len().
AsStrOrEmpty(v) == IF v.t = "str" THEN v.s ELSE <<>>
ArrayLen(v) == IF v.t = "seq" THEN Len(v.e) ELSE 0

----------------------------------------------------------------------------
(* Texts of the program                                                    *)

DATA == <<"d","a","t","a",":"," ">>
TXT_DocID == <<"D","o","c","I","D"," ">>
TXT_ColonSp == <<":"," ">>
TXT_Errors == <<"E","r","r","o","r","s"," ","r","e","t","r","i","e","v","i","n","g"," ","d","o","c","u","m","e","n","t"," ","I","D","s",":"," ">>
TXT_Semi == <<";"," ">>
TXT_RequestFailed == <<"R","e","q","u","e","s","t"," ","f","a","i","l","e","d",":"," ">>
TXT_ReadFailed == <<"F","a","i","l","e","d"," ","t","o"," ","r","e","a","d"," ","S","S","E"," ","r","e","s","p","o","n","s","e",":"," ">>
TXT_Status == <<"R","e","q","u","e","s","t"," ","f","a","i","l","e","d"," ","w","i","t","h"," ","s","t","a","t","u","s",":"," ">>
TXT_Dash == <<" ","-"," ">>
TXT_AlreadyExists == <<"a","l","r","e","a","d","y"," ","e","x","i","s","t","s">>

\* Display of a reqwest error (opaque to the program).
TXT_SendError == <<"e","r","r","o","r"," ","s","e","n","d","i","n","g"," ","r","e","q","u","e","s","t">>
TXT_BodyError == <<"e","r","r","o","r"," ","d","e","c","o","d","i","n","g"," ","r","e","s","p","o","n","s","e"," ","b","o","d","y">>

\* Display of a StatusCode: the number and its canonical reason.
StatusText(status) ==
    CASE status = 200 -> <<"2","0","0"," ","O","K">>
      [] status = 400 -> <<"4","0","0"," ","B","a","d"," ","R","e","q","u","e","s","t">>
      [] status = 404 -> <<"4","0","4"," ","N","o","t"," ","F","o","u","n","d">>
      [] status = 502 -> <<"5","0","2"," ","B","a","d"," ","G","a","t","e","w","a","y">>

----------------------------------------------------------------------------
(* get_document_ids                                                        *)

Ok(ids) == [ok |-> TRUE, ids |-> ids, msg |-> <<>>]
Err(msg) == [ok |-> FALSE, ids |-> <<>>, msg |-> msg]

\* format!("DocID {}: {}", result.doc_id, result.error)
RecordError(doc_id, error) == TXT_DocID \o doc_id \o TXT_ColonSp \o error

\* The fallback test on a payload that failed the structured decode.
IsQuoted(json_data) ==
    starts_with(json_data, <<Q>>) /\ ends_with(json_data, <<Q>>)

\* The identifier the fallback pushes.
Unquote(json_data) == trim_matches(json_data, Q)

\* The marker test on a trimmed line.
HasDataMarker(line) == starts_with(line, DATA)

\* OnDecodeFailure with the undecodable payload reported as a record error.
OnDecodeFailure_reported(acc, json_data) ==
    IF IsQuoted(json_data)
    THEN [acc EXCEPT !.doc_ids = Append(@, Unquote(json_data))]
    ELSE [acc EXCEPT !.errors = Append(@, json_data)]

\* What a payload whose structured decode failed adds to the accumulators.
OnDecodeFailure(acc, json_data) ==
    IF IsQuoted(json_data)
    THEN [acc EXCEPT !.doc_ids = Append(@, Unquote(json_data))]
    ELSE acc

\* OnRecord with an identifier pushed only when it is not yet in doc_ids.
OnRecord_dedup(acc, r) ==
    IF r.error = <<>>
    THEN IF \E i \in 1..Len(acc.doc_ids) : acc.doc_ids[i] = r.doc_id
         THEN acc
         ELSE [acc EXCEPT !.doc_ids = Append(@, r.doc_id)]
    ELSE [acc EXCEPT !.errors = Append(@, RecordError(r.doc_id, r.error))]

\* What a decoded record adds to the accumulators.
OnRecord(acc, r) ==
    IF r.error = <<>>
    THEN [acc EXCEPT !.doc_ids = Append(@, r.doc_id)]
    ELSE [acc EXCEPT !.errors = Append(@, RecordError(r.doc_id, r.error))]

\* OnOtherLine with a non-empty line without the marker reported as an error.
OnOtherLine_reported(acc, line) ==
    IF line = <<>> THEN acc ELSE [acc EXCEPT !.errors = Append(@, line)]

\* What a line without the data marker adds to the accumulators.
OnOtherLine(acc, line) == acc

\* One iteration of the loop over text.lines().
ProcessLine(acc, l) ==
    LET line == trim(l)
    IN IF HasDataMarker(line)
       THEN LET json_data == trim(strip_prefix_or_empty(line, DATA))
            IN IF json_data # <<>>
               THEN LET r == ParseDocIDResult(json_data)
                    IN IF r.ok THEN OnRecord(acc, r)
                       ELSE OnDecodeFailure(acc, json_data)
               ELSE acc
       ELSE OnOtherLine(acc, line)

RECURSIVE DecodeLines(_, _)
DecodeLines(ls, acc) ==
    IF ls = <<>> THEN acc
    ELSE DecodeLines(Tail(ls), ProcessLine(acc, Head(ls)))

\* StreamResult reporting the first record error only.
StreamResult_first(doc_ids, errors) ==
    IF errors # <<>> THEN Err(TXT_Errors \o errors[1]) ELSE Ok(doc_ids)

\* The result of the status-200 branch from the two accumulators.
StreamResult(doc_ids, errors) ==
    IF errors # <<>>
    THEN Err(TXT_Errors \o join(errors, TXT_Semi))
    ELSE Ok(doc_ids)

\* StatusFailure without the body.
StatusFailure_noBody(status, text) == Err(TXT_Status \o StatusText(status))

\* The generic failure of the other branch.
StatusFailure(status, text) ==
    Err(TXT_Status \o StatusText(status) \o TXT_Dash \o text)

\* The branch taken when the status is not 200.
ErrorOr(e, failure) == IF e.ok THEN Err(e.error) ELSE failure

ErrorBranch(status, text) ==
    ErrorOr(ParseDefraError(text), StatusFailure(status, text))

\* The part of get_document_ids after the body was read.
DecodeResponse(status, text) ==
    IF status = 200
    THEN LET acc == DecodeLines(lines(text), [doc_ids |-> <<>>, errors |-> <<>>])
         IN StreamResult(acc.doc_ids, acc.errors)
    ELSE ErrorBranch(status, text)

\* get_document_ids on the answer r of the node.
get_document_ids(r) ==
    CASE r.kind = "sendErr" -> Err(TXT_RequestFailed \o TXT_SendError)
      [] r.kind = "readErr" -> Err(TXT_ReadFailed \o TXT_BodyError)
      [] r.kind = "http" -> DecodeResponse(r.status, r.text)

----------------------------------------------------------------------------
(* The p2p request wrappers (p2p_networking.rs)                            *)

Returned == [kind |-> "ok", msg |-> <<>>]
Failed(msg) == [kind |-> "err", msg |-> msg]
Panicked == [kind |-> "panic", msg |-> <<>>]

\* response.json::<DefraError>().await.unwrap() and Err(error.error): the
\* unwrap panics when the body is not a DefraError.
Unwrapped(e) == IF e.ok THEN Failed(e.error) ELSE Panicked

ErrorResponse(status, text) == Unwrapped(ParseDefraError(text))

TXT_NotFound == <<"n","o","t"," ","f","o","u","n","d">>

\* The shape shared by the wrappers that return Result<(), String>.
UnitWrapper(r) ==
    CASE r.kind = "sendErr" -> Failed(TXT_RequestFailed \o TXT_SendError)
      [] r.kind = "http" ->
           IF r.status = 200 THEN Returned ELSE ErrorResponse(r.status, r.text)

add_replicator(r) == UnitWrapper(r)

\* remove_replicator reading a "not found" of the node as success.
remove_replicator_forgiving(r) ==
    IF UnitWrapper(r).kind = "err" /\ contains(UnitWrapper(r).msg, TXT_NotFound)
    THEN Returned ELSE UnitWrapper(r)

remove_replicator(r) == UnitWrapper(r)
add_peer_collections(r) == UnitWrapper(r)
remove_peer_collections(r) == UnitWrapper(r)
add_peer_documents(r) == UnitWrapper(r)

\* sync_documents putting "Request failed: " before the message of the node.
sync_documents_prefixed(r) ==
    IF r.kind = "http" /\ r.status # 200 /\ ParseDefraError(r.text).ok
    THEN Failed(TXT_RequestFailed \o ParseDefraError(r.text).error)
    ELSE UnitWrapper(r)

sync_documents(r) == UnitWrapper(r)

\* Ok(value) of the wrappers that return one.
OkWith(v) == [kind |-> "ok", msg |-> <<>>, val |-> v]

TXT_ParsePeerInfo == <<"F","a","i","l","e","d"," ","t","o"," ","p","a","r","s","e"," ","p","e","e","r"," ","i","n","f","o",":"," ">>
TXT_ParseReplicators == <<"F","a","i","l","e","d"," ","t","o"," ","p","a","r","s","e"," ","r","e","p","l","i","c","a","t","o","r","s",":"," ">>
TXT_ParseCollections == <<"F","a","i","l","e","d"," ","t","o"," ","p","a","r","s","e"," ","c","o","l","l","e","c","t","i","o","n","s",":"," ">>
TXT_ParseDocuments == <<"F","a","i","l","e","d"," ","t","o"," ","p","a","r","s","e"," ","d","o","c","u","m","e","n","t","s",":"," ">>

\* response.json::<PeerInfo>() and the map_err on its failure.
PeerInfoResult(v) ==
    IF v.ok /\ IsPeerInfo(v.val) THEN OkWith(PeerInfoOf(v.val))
    ELSE Failed(TXT_ParsePeerInfo \o TXT_BodyError)

get_peer_info(r) ==
    CASE r.kind = "sendErr" -> Failed(TXT_RequestFailed \o TXT_SendError)
      [] r.kind = "http" ->
           IF r.status = 200
           THEN PeerInfoResult(ParseJson(r.text))
           ELSE ErrorResponse(r.status, r.text)

\* response.json::<Vec<Replicator>>() and the map_err on its failure.
ReplicatorsResult(v) ==
    IF v.ok /\ IsReplicatorVec(v.val) THEN OkWith(ReplicatorVec(v.val))
    ELSE Failed(TXT_ParseReplicators \o TXT_BodyError)

list_replicators(r) ==
    CASE r.kind = "sendErr" -> Failed(TXT_RequestFailed \o TXT_SendError)
      [] r.kind = "http" ->
           IF r.status = 200
           THEN ReplicatorsResult(ParseJson(r.text))
           ELSE ErrorResponse(r.status, r.text)

\* response.json::<Vec<String>>() and the map_err on its failure.
StringVecResult(v, parse_failed) ==
    IF v.ok /\ IsStringVec(v.val) THEN OkWith(StringVec(v.val))
    ELSE Failed(parse_failed \o TXT_BodyError)

\* The shape shared by the wrappers that return Result<Vec<String>, String>.
ListWrapper(r, parse_failed) ==
    CASE r.kind = "sendErr" -> Failed(TXT_RequestFailed \o TXT_SendError)
      [] r.kind = "http" ->
           IF r.status = 200
           THEN StringVecResult(ParseJson(r.text), parse_failed)
           ELSE ErrorResponse(r.status, r.text)

list_peer_collections(r) == ListWrapper(r, TXT_ParseCollections)
list_peer_documents(r) == ListWrapper(r, TXT_ParseDocuments)

\* Option<String>.
None == [some |-> FALSE, v |-> <<>>]
Some(v) == [some |-> TRUE, v |-> v]

\* RequestBuilder::json: the compact serde_json text of the value.
SerString(s) == <<Q>> \o s \o <<Q>>

RECURSIVE SerElements(_)
SerElements(v) ==
    IF v = <<>> THEN <<>>
    ELSE IF Len(v) = 1 THEN SerString(v[1])
    ELSE SerString(v[1]) \o <<",">> \o SerElements(Tail(v))

\* Vec<String>.
SerVec(v) == <<"[">> \o SerElements(v) \o <<"]">>

SerField(key, value) == SerString(key) \o <<":">> \o value

\* The derived Serialize of PeerInfo, with its renamed fields.
SerPeerInfo(p) ==
    <<"{">> \o SerField(F_ID, SerString(p.id)) \o <<",">>
            \o SerField(F_Addresses, SerVec(p.addresses)) \o <<"}">>

\* The derived Serialize of ReplicatorParams.
SerReplicatorParams(p) ==
    <<"{">> \o SerField(F_Info, SerPeerInfo(p.info)) \o <<",">>
            \o SerField(F_Collections, SerVec(p.collections)) \o <<"}">>

\* SerSyncDocumentsRequest writing an absent timeout as null.
SerSyncDocumentsRequest_null(r) ==
    <<"{">> \o SerField(F_collectionName, SerString(r.collection_name)) \o <<",">>
            \o SerField(F_docIDs, SerVec(r.doc_ids)) \o <<",">>
            \o SerField(F_timeout, IF r.timeout.some THEN SerString(r.timeout.v)
                                   ELSE <<"n","u","l","l">>)
            \o <<"}">>

\* SerSyncDocumentsRequest writing the identifiers last to first.
SerSyncDocumentsRequest_reversed(r) ==
    <<"{">> \o SerField(F_collectionName, SerString(r.collection_name)) \o <<",">>
            \o SerField(F_docIDs,
                        SerVec([i \in 1..Len(r.doc_ids) |->
                                   r.doc_ids[Len(r.doc_ids) + 1 - i]]))
            \o (IF r.timeout.some
                THEN <<",">> \o SerField(F_timeout, SerString(r.timeout.v))
                ELSE <<>>)
            \o <<"}">>

\* The derived Serialize of SyncDocumentsRequest: timeout is skipped when it
\* is None.
SerSyncDocumentsRequest(r) ==
    <<"{">> \o SerField(F_collectionName, SerString(r.collection_name)) \o <<",">>
            \o SerField(F_docIDs, SerVec(r.doc_ids))
            \o (IF r.timeout.some
                THEN <<",">> \o SerField(F_timeout, SerString(r.timeout.v))
                ELSE <<>>)
            \o <<"}">>

\* A request: the method, the node of the base url, the path appended to
\* the base url, and the body.
Request(method, base_url, path, body) ==
    [method |-> method, node |-> base_url, path |-> path, body |-> body]

P_Info == "/p2p/info"
P_Replicators == "/p2p/replicators"
P_Collections == "/p2p/collections"
P_Documents == "/p2p/documents"
P_Sync == "/p2p/documents/sync"
P_GraphQL == "/graphql"

\* The request each wrapper builds from its arguments.
GetPeerInfoRequest(base_url) == Request("GET", base_url, P_Info, <<>>)

\* AddReplicatorRequest sending the addresses of the peer without its id.
AddReplicatorRequest_anonymous(base_url, peer_info, collections) ==
    Request("POST", base_url, P_Replicators,
            SerReplicatorParams([info |-> [peer_info EXCEPT !.id = <<>>],
                                 collections |-> collections]))

AddReplicatorRequest(base_url, peer_info, collections) ==
    Request("POST", base_url, P_Replicators,
            SerReplicatorParams([info |-> peer_info, collections |-> collections]))

ListReplicatorsRequest(base_url) == Request("GET", base_url, P_Replicators, <<>>)

RemoveReplicatorRequest(base_url, peer_info, collections) ==
    Request("DELETE", base_url, P_Replicators,
            SerReplicatorParams([info |-> peer_info, collections |-> collections]))

\* AddPeerCollectionsRequest using the base url of node 1 whatever it is
\* given.
AddPeerCollectionsRequest_shared(base_url, collections) ==
    Request("POST", 1, P_Collections, SerVec(collections))

AddPeerCollectionsRequest(base_url, collections) ==
    Request("POST", base_url, P_Collections, SerVec(collections))

ListPeerCollectionsRequest(base_url) == Request("GET", base_url, P_Collections, <<>>)

RemovePeerCollectionsRequest(base_url, collections) ==
    Request("DELETE", base_url, P_Collections, SerVec(collections))

\* AddPeerDocumentsRequest posting to the collections endpoint.
AddPeerDocumentsRequest_collections(base_url, doc_ids) ==
    Request("POST", base_url, P_Collections, SerVec(doc_ids))

AddPeerDocumentsRequest(base_url, doc_ids) ==
    Request("POST", base_url, P_Documents, SerVec(doc_ids))

ListPeerDocumentsRequest(base_url) == Request("GET", base_url, P_Documents, <<>>)

SyncDocumentsRequest(base_url, collection_name, doc_ids, timeout) ==
    Request("POST", base_url, P_Sync,
            SerSyncDocumentsRequest([collection_name |-> collection_name,
                                     doc_ids |-> doc_ids, timeout |-> timeout]))

\* Attempts sending the request again when no answer came.
Attempts_retry(req, r) == IF r.kind = "sendErr" THEN <<req, req>> ELSE <<req>>

\* The requests a wrapper sends for the request it built, given the answer
\* r to the first: send() is awaited once, and its error is returned.
Attempts(req, r) == <<req>>

\* Classify comparing the whole message with the text.
Classify_exact(outcome) ==
    IF outcome.kind = "ok" THEN "added"
    ELSE IF outcome.msg = TXT_AlreadyExists THEN "alreadyExists"
    ELSE "error"

\* main's match on the result of add_replicator.
Classify(outcome) ==
    IF outcome.kind = "ok" THEN "added"
    ELSE IF contains(outcome.msg, TXT_AlreadyExists) THEN "alreadyExists"
    ELSE "error"

----------------------------------------------------------------------------
(* The node's side of GET /collections/{name}: the stream lines it emits.  *)
(* A stream line is described by its kind, its identifier and its error;   *)
(* the body the client receives is the rendering of the emitted lines.     *)

MaxLines == 3

ID_ABC == <<"a","b","c">>
ID_XYZ == <<"x","y","z">>
NOT_FOUND == <<"n","o","t"," ","f","o","u","n","d">>

Line(kind, id, error) == [kind |-> kind, id |-> id, error |-> error]

StreamLines ==
    { Line("record", ID_ABC, <<>>), Line("record", ID_XYZ, <<>>),
      Line("record", ID_ABC, NOT_FOUND), Line("record", ID_XYZ, NOT_FOUND),
      Line("record", <<>>, <<>>), Line("bare", <<>>, <<>>),
      Line("loose", ID_XYZ, <<>>),
      Line("noErrorField", ID_ABC, <<>>),
      Line("bare", ID_ABC, <<>>), Line("bareTwice", ID_XYZ, <<>>),
      Line("unquoted", ID_ABC, <<>>), Line("truncated", ID_ABC, <<>>),
      Line("comment", <<>>, <<>>), Line("blank", <<>>, <<>>),
      Line("event", <<>>, <<>>), Line("noSpace", ID_ABC, <<>>),
      Line("errorObject", <<>>, NOT_FOUND) }

Quoted(s) == <<Q>> \o s \o <<Q>>

Member(key, value) == Quoted(key) \o <<":">> \o Quoted(value)

\* The text of one emitted line, without its line ending.
RenderLine(l) ==
    CASE l.kind = "record" ->
           DATA \o <<"{">> \o Member(DOCID, l.id) \o <<",">>
                \o Member(ERROR, l.error) \o <<"}">>
      [] l.kind = "loose" ->
           <<SP, TAB>> \o DATA \o <<SP, "{", SP>> \o Quoted(ERROR)
                \o <<SP, ":", SP>> \o Quoted(l.error) \o <<SP, ",", SP>>
                \o Quoted(<<"v">>) \o <<":">> \o <<"t","r","u","e">> \o <<",">>
                \o Quoted(DOCID) \o <<":", TAB>> \o Quoted(l.id)
                \o <<SP, "}", SP, CR>>
      [] l.kind = "noErrorField" ->
           DATA \o <<"{">> \o Member(DOCID, l.id) \o <<"}">>
      [] l.kind = "bare" -> DATA \o Quoted(l.id)
      [] l.kind = "bareTwice" -> DATA \o Quoted(Quoted(l.id))
      [] l.kind = "unquoted" -> DATA \o l.id
      [] l.kind = "truncated" ->
           DATA \o <<"{">> \o Member(DOCID, l.id) \o <<",">>
      [] l.kind = "comment" -> <<":"," ","c","o","m","m","e","n","t">>
      [] l.kind = "blank" -> <<>>
      [] l.kind = "event" -> <<"e","v","e","n","t",":"," ","u","p","d","a","t","e">>
      [] l.kind = "noSpace" ->
           <<"d","a","t","a",":">> \o <<"{">> \o Member(DOCID, l.id) \o <<",">>
                \o Member(ERROR, l.error) \o <<"}">>
      [] l.kind = "errorObject" -> <<"{">> \o Member(ERROR, l.error) \o <<"}">>

\* The body: every line followed by its line ending.
RECURSIVE Render(_)
Render(ls) ==
    IF ls = <<>> THEN <<>> ELSE RenderLine(Head(ls)) \o <<NL>> \o Render(Tail(ls))

Emissions == UNION { [1..n -> StreamLines] : n \in 0..MaxLines }

\* What the emitted lines are, by kind.
IsRecord(l) == l.kind \in {"record", "loose"}
IsFailing(l) == IsRecord(l) /\ l.error # <<>>
IsFallback(l) == l.kind \in {"bare", "bareTwice"}
IsEmitting(l) == (IsRecord(l) /\ l.error = <<>>) \/ IsFallback(l)
IsFraming(l) == l.kind \in {"comment", "blank", "event", "noSpace", "errorObject"}
IsUndecodable(l) == l.kind \in {"noErrorField", "unquoted", "truncated"}
CarriesDocID(l) == IsRecord(l) \/ l.kind = "noErrorField" \/ IsFallback(l)

----------------------------------------------------------------------------
(* The decoder call: the answer of the node is drawn in Init, and the one  *)
(* action is the whole of get_document_ids on it.                          *)

NoResult == [ok |-> FALSE, ids |-> <<>>, msg |-> <<>>]

NoColl == [at |-> 0, exit |-> "idle", used |-> <<>>]

Http(status, text) == [kind |-> "http", status |-> status, text |-> text]
NoAnswer(kind) == [kind |-> kind, status |-> 0, text |-> <<>>]

DecInit ==
    /\ pc = "call"
    /\ emitted \in Emissions
    /\ \/ \E st \in {200, 404} : resp = Http(st, Render(emitted))
       \/ /\ emitted = <<>>
          /\ resp \in {NoAnswer("sendErr"), NoAnswer("readErr")}
    /\ result = NoResult
    /\ colmain = NoColl

GetDocumentIds ==
    /\ pc = "call"
    /\ pc' = "done"
    /\ result' = get_document_ids(resp)
    /\ UNCHANGED <<resp, emitted, colmain>>
    /\ UNCHANGED p2pVars
    /\ UNCHANGED mainVars

----------------------------------------------------------------------------
(* Properties of get_document_ids                                          *)

Done200 == pc = "done" /\ resp.kind = "http" /\ resp.status = 200
DoneNot200 == pc = "done" /\ resp.kind = "http" /\ resp.status # 200

NoFailing == \A i \in 1..Len(emitted) : ~IsFailing(emitted[i])

\* The emitted lines that yield an identifier, and those that failed.
Emitting == SelectSeq(emitted, IsEmitting)
Failing == SelectSeq(emitted, IsFailing)

NotFraming(l) == ~IsFraming(l)
NotUndecodable(l) == ~IsUndecodable(l)

\* C1: on a status-200 body without a failing record, the call returns Ok
\* with one identifier per identifier-yielding data line, in line order,
\* duplicates kept, nothing for framing lines; the identifier of a record is
\* its docID (the value pushed for a repeatedly quoted payload is C6's).
C1_OrderedIds ==
    (Done200 /\ NoFailing) =>
        /\ result.ok
        /\ Len(result.ids) = Len(Emitting)
        /\ \A k \in 1..Len(Emitting) :
              Emitting[k].kind # "bareTwice" => result.ids[k] = Emitting[k].id

\* A record emitted twice, with a framing line in the body, returned twice.
C1_Witness ==
    /\ Done200 /\ NoFailing
    /\ \E i, j, k \in 1..Len(emitted) :
          /\ i < j /\ emitted[i] = emitted[j] /\ emitted[i].kind = "record"
          /\ IsFraming(emitted[k])
    /\ result.ok /\ Len(result.ids) = 2 /\ result.ids[1] = result.ids[2]

\* The texts of ns occur in msg one after the other, from position from on.
RECURSIVE OccurInOrder(_, _, _)
OccurInOrder(msg, from, ns) ==
    \/ ns = <<>>
    \/ \E i \in from..(Len(msg) - Len(Head(ns)) + 1) :
          /\ SubSeq(msg, i, i + Len(Head(ns)) - 1) = Head(ns)
          /\ OccurInOrder(msg, i + Len(Head(ns)), Tail(ns))

FailureText(l) == l.id \o <<":", " ">> \o l.error

FailureTexts == [k \in 1..Len(Failing) |-> FailureText(Failing[k])]

\* C2: on a status-200 body with at least one failing record the call
\* returns Err, no identifier is returned, and the one message holds
\* "<docID>: <error>" for every failing record, in input order.
C2_AggregateError ==
    (Done200 /\ ~NoFailing) =>
        /\ ~result.ok
        /\ result.ids = <<>>
        /\ OccurInOrder(result.msg, 1, FailureTexts)

\* Two failing records of different identifiers beside a well-formed one.
C2_Witness ==
    /\ Done200
    /\ Len(Failing) = 2 /\ Failing[1].id # Failing[2].id
    /\ Emitting # <<>>
    /\ ~result.ok
    /\ contains(result.msg, FailureText(Failing[2]))

\* C3: lines without the data marker contribute neither an identifier nor
\* an error: the result is that of the same body without them; the lines
\* data abc, ": comment", data xyz give Ok(<<abc, xyz>>).
C3_FramingIgnored ==
    Done200 =>
        /\ result = DecodeResponse(200, Render(SelectSeq(emitted, NotFraming)))
        /\ emitted = << Line("record", ID_ABC, <<>>), Line("comment", <<>>, <<>>),
                        Line("record", ID_XYZ, <<>>) >>
             => result = Ok(<<ID_ABC, ID_XYZ>>)

\* The scenario of the comment line between two records.
C3_Witness ==
    /\ Done200
    /\ emitted = << Line("record", ID_ABC, <<>>), Line("comment", <<>>, <<>>),
                    Line("record", ID_XYZ, <<>>) >>
    /\ result = Ok(<<ID_ABC, ID_XYZ>>)

\* C4: on a status-200 body without a failing record, every data line whose
\* payload carries a docID contributes one identifier: as many identifiers
\* are returned as there are identifier-carrying data lines.
C4_NoIdentifierLost ==
    (Done200 /\ NoFailing) =>
        /\ result.ok
        /\ Len(result.ids) = Len(SelectSeq(emitted, CarriesDocID))

\* C5: a data line whose payload fails the structured decode and is not
\* quoted is dropped without an error: the result is that of the same body
\* without such lines, and Ok when no record is failing.
C5_UndecodableDropped ==
    Done200 =>
        /\ result = DecodeResponse(200, Render(SelectSeq(emitted, NotUndecodable)))
        /\ NoFailing => result.ok

\* An undecodable line beside a record whose identifier is returned.
C5_Witness ==
    /\ Done200 /\ NoFailing
    /\ \E i, j \in 1..Len(emitted) :
          emitted[i].kind \in {"unquoted", "truncated"} /\ IsRecord(emitted[j])
    /\ result.ok /\ Len(result.ids) >= 1

\* The payload of a fallback line with its enclosing pair of quotes removed.
WithoutEnclosingQuotes(l) == IF l.kind = "bare" THEN l.id ELSE Quoted(l.id)

\* C6: a payload that fails the structured decode and is quoted is emitted,
\* at its line's position, without its enclosing pair of quotes.
C6_FallbackUnquoted ==
    (Done200 /\ NoFailing) =>
        \A k \in 1..Len(Emitting) :
            IsFallback(Emitting[k]) =>
                /\ k <= Len(result.ids)
                /\ result.ids[k] = WithoutEnclosingQuotes(Emitting[k])

\* The body is one structured error object (blank lines around it aside).
IsErrorBody ==
    /\ \E i \in 1..Len(emitted) : emitted[i].kind = "errorObject"
    /\ \A i, j \in 1..Len(emitted) :
          /\ emitted[i].kind \in {"errorObject", "blank"}
          /\ (emitted[i].kind = "errorObject" /\ emitted[j].kind = "errorObject")
                => i = j

\* C7: when the status is not 200 no line is decoded: the call returns Err
\* with the error member of the body when the body is one structured error
\* object, and otherwise with the generic message holding the status and
\* the raw body.
C7_ErrorStatus ==
    DoneNot200 =>
        /\ ~result.ok
        /\ result.ids = <<>>
        /\ result.msg =
              IF IsErrorBody THEN NOT_FOUND
              ELSE TXT_Status \o StatusText(resp.status) \o TXT_Dash \o resp.text

\* A body of valid data lines under status 404: the generic failure.
C7_Witness ==
    /\ DoneNot200
    /\ Len(emitted) >= 2
    /\ \A i \in 1..Len(emitted) : IsEmitting(emitted[i]) /\ IsRecord(emitted[i])
    /\ ~result.ok
    /\ ends_with(result.msg, resp.text)

\* The structured error object under status 404: its message, verbatim.
C7_WitnessErrorObject ==
    DoneNot200 /\ IsErrorBody /\ Len(emitted) = 2 /\ result = Err(NOT_FOUND)

----------------------------------------------------------------------------
(* The p2p session: two nodes, each the other's peer.  The client calls    *)
(* the wrappers; what a node answers, and what it then holds, is the       *)
(* node's side of the HTTP boundary.                                       *)

MaxCalls == 2

Nodes == {1, 2}

USER == <<"U","s","e","r">>
PRODUCT == <<"P","r","o","d","u","c","t">>
MESSAGE == <<"M","e","s","s","a","g","e">>
Collections == {USER, PRODUCT}

DOC1 == <<"b","a","e","1">>
DOC2 == <<"b","a","e","2">>
Docs == {DOC1, DOC2}

TXT_30s == <<"3","0","s">>

\* The vectors of names the session passes to the wrappers.
CollectionVecs == {<<USER>>, <<PRODUCT>>, <<USER, PRODUCT>>, <<PRODUCT, USER>>}
DocVecs == {<<DOC1>>, <<DOC2>>, <<DOC1, DOC2>>, <<DOC2, DOC1>>, <<DOC1, DOC1>>}

Range(f) == {f[i] : i \in DOMAIN f}

\* The identity of a node as a peer: what GET /p2p/info of the node gives.
PEER_1 == <<"1","2","D","3","K","o","o","A">>
PEER_2 == <<"1","2","D","3","K","o","o","B">>
ADDR_1 == <<"/","i","p","4","/","1">>
ADDR_2 == <<"/","i","p","4","/","2">>
Peer(n) ==
    IF n = 1 THEN [id |-> PEER_1, addresses |-> <<ADDR_1>>]
    ELSE [id |-> PEER_2, addresses |-> <<ADDR_2>>]
Other(n) == 3 - n

MSG_Exists == <<"r","e","p","l","i","c","a","t","o","r"," ","a","l","r","e","a","d","y"," ","e","x","i","s","t","s">>
MSG_Unknown == <<"c","o","l","l","e","c","t","i","o","n"," ","n","o","t"," ","f","o","u","n","d">>
MSG_Absent == <<"r","e","p","l","i","c","a","t","o","r"," ">> \o TXT_NotFound
TXT_Plain == <<"B","a","d"," ","G","a","t","e","w","a","y">>

\* The error body of the node: {"error":"<msg>"}.
ErrorBody(msg) == <<"{">> \o Member(ERROR, msg) \o <<"}">>

\* The answers to a request: "accepted" (200, the node changes its state),
\* "duplicate" (the replicator directive exists already), "rejected" (the
\* node declines for another reason), "gateway" (a non-200 answer whose
\* body is plain text), "unreachable" (no answer), "timeout" (the exchange
\* timed out: send() fails as it does when the node cannot be reached).
Answer(kind) ==
    CASE kind = "accepted" -> Http(200, <<>>)
      [] kind = "duplicate" -> Http(400, ErrorBody(MSG_Exists))
      [] kind = "rejected" -> Http(400, ErrorBody(MSG_Unknown))
      [] kind = "absent" -> Http(400, ErrorBody(MSG_Absent))
      [] kind = "gateway" -> Http(502, TXT_Plain)
      [] kind = "unreachable" -> NoAnswer("sendErr")
      [] kind = "timeout" -> NoAnswer("sendErr")

\* The answers a node may give to an add of a replicator for collections cs:
\* a directive it already holds is reported as existing, never accepted.
ReplicatorAnswers(n, cs) ==
    IF cs \subseteq reps[n] /\ reps[n] # {}
    THEN {"duplicate", "rejected", "gateway", "unreachable"}
    ELSE {"accepted", "rejected", "gateway", "unreachable"}

OtherAnswers == {"accepted", "rejected", "gateway", "unreachable"}

SyncAnswers == OtherAnswers \cup {"timeout"}

\* The answers a node may give to the removal of a replicator for
\* collections cs: when it holds none of them it may accept the removal or
\* report that there is no such replicator.
RemoveAnswers(n, cs) ==
    IF cs \cap reps[n] = {} THEN OtherAnswers \cup {"absent"} ELSE OtherAnswers

\* The node reads the body of a request it accepts.  The strings of a JSON
\* array of strings:
Strings(v) ==
    IF v.t = "seq" /\ \A i \in DOMAIN v.e : v.e[i].t = "str"
    THEN {v.e[i].s : i \in DOMAIN v.e} ELSE {}

\* The strings of the member key of a JSON object.
MemberStrings(v, key) ==
    IF v.t = "map" /\ Len(ValuesOf(v.m, key)) = 1
    THEN Strings(ValuesOf(v.m, key)[1]) ELSE {}

\* The names a request carries, by the endpoint that receives it.
NamedIn(v, path) ==
    IF ~v.ok THEN {}
    ELSE IF path = P_Replicators THEN MemberStrings(v.val, F_Collections)
    ELSE IF path = P_Sync THEN MemberStrings(v.val, F_docIDs)
    ELSE Strings(v.val)

Named(req) == NamedIn(ParseJson(req.body), req.path)

\* The membership of one mechanism after an accepted request to its
\* endpoint: POST adds the names, DELETE removes them.
Changed(set, req) ==
    IF req.method = "POST" THEN set \cup Named(req)
    ELSE IF req.method = "DELETE" THEN set \ Named(req)
    ELSE set

\* What the nodes hold after the request: the endpoint that receives it
\* decides which mechanism of which node changes.
Handled(held, path, req, a) ==
    IF a = "accepted" /\ req.path = path
    THEN [held EXCEPT ![req.node] = Changed(@, req)]
    ELSE held

\* The node reads the body of a request to /p2p/replicators as
\* {Info: {ID, Addresses}, Collections: [string]}.
ParamsOk(v) ==
    /\ v.ok /\ v.val.t = "map"
    /\ Has(v.val.m, F_Info) /\ IsPeerInfo(Get(v.val.m, F_Info))
    /\ Has(v.val.m, F_Collections) /\ IsStringVec(Get(v.val.m, F_Collections))

ParamsId(v) == PeerInfoOf(Get(v.val.m, F_Info)).id

ParamsCollections(v) == Range(StringVec(Get(v.val.m, F_Collections)))

\* The indices of the replicators of a node that target the peer id.
Targeting(list, id) == {i \in DOMAIN list : list[i].id = id}

\* The replicators of a node after it accepted an add for peer id and
\* collections cs: the collections are merged into the replicator the node
\* holds for that peer, and a new one is made when it holds none.
With(list, id, cs) ==
    IF cs = {} THEN list
    ELSE IF Targeting(list, id) # {}
    THEN [i \in DOMAIN list |->
             IF list[i].id = id
             THEN [list[i] EXCEPT !.collections = @ \cup cs] ELSE list[i]]
    ELSE Append(list, [id |-> id, collections |-> cs])

HoldsAny(r) == r.collections # {}

\* The replicators of a node after it accepted a removal: the collections
\* leave the replicator of that peer, which goes when none is left.
Without(list, id, cs) ==
    SelectSeq([i \in DOMAIN list |->
                  IF list[i].id = id
                  THEN [list[i] EXCEPT !.collections = @ \ cs] ELSE list[i]],
              HoldsAny)

StoredIn(list, method, v) ==
    IF ~ParamsOk(v) THEN list
    ELSE IF method = "POST" THEN With(list, ParamsId(v), ParamsCollections(v))
    ELSE IF method = "DELETE"
    THEN Without(list, ParamsId(v), ParamsCollections(v))
    ELSE list

\* The replicators the nodes hold after the request.
Stored(held, req, a) ==
    IF a = "accepted" /\ req.path = P_Replicators
    THEN [held EXCEPT ![req.node] = StoredIn(@, req.method, ParseJson(req.body))]
    ELSE held

\* The collections a node replicates to any peer.
CollectionsOf(list) == UNION {list[i].collections : i \in DOMAIN list}

\* What a node that is reached answers to a request to /p2p/replicators,
\* given the replicators it holds.
Decides(list, method, v) ==
    IF ~ParamsOk(v) THEN {"rejected"}
    ELSE IF method = "POST"
    THEN IF ParamsCollections(v) = {} THEN {"rejected"}
         ELSE IF \E i \in Targeting(list, ParamsId(v)) :
                    ParamsCollections(v) \subseteq list[i].collections
         THEN {"duplicate"}
         ELSE {"accepted"}
    ELSE IF \E i \in Targeting(list, ParamsId(v)) :
               ParamsCollections(v) \cap list[i].collections # {}
    THEN {"accepted"}
    ELSE {"accepted", "absent"}

RepAnswers(list, req) ==
    Decides(list, req.method, ParseJson(req.body)) \cup {"gateway", "unreachable"}

NoPeer == [id |-> <<>>, addresses |-> <<>>]

NoArgs ==
    [peer |-> NoPeer, collection_name |-> <<>>, names |-> <<>>, timeout |-> None]
Names(v) ==
    [peer |-> NoPeer, collection_name |-> <<>>, names |-> v, timeout |-> None]
PeerArgs(p, v) ==
    [peer |-> p, collection_name |-> <<>>, names |-> v, timeout |-> None]
SyncArgs(c, v, t) ==
    [peer |-> NoPeer, collection_name |-> c, names |-> v, timeout |-> t]

\* told is the Status the node put into the replicators it listed.
NoCall ==
    [op |-> "none", node |-> 0, args |-> NoArgs, sent |-> <<>>,
     answer |-> "none", resp |-> NoAnswer("none"), outcome |-> Returned,
     told |-> 0]

Called(op, n, args, sent, a, outcome) ==
    [op |-> op, node |-> n, args |-> args, sent |-> sent, answer |-> a,
     resp |-> Answer(a), outcome |-> outcome, told |-> 0]

\* One call of a wrapper in the session: the wrapper sends the request it
\* built, the node answers and changes what it holds, the wrapper returns;
\* the session goes on unless the wrapper panicked.
Step(op, n, args, req, a, outcome) ==
    /\ wpc = "run"
    /\ nCalls < MaxCalls
    /\ nCalls' = nCalls + 1
    /\ call' = Called(op, n, args, Attempts(req, Answer(a)), a, outcome)
    /\ wpc' = IF outcome.kind = "panic" THEN "aborted" ELSE "run"
    /\ reps' = Handled(reps, P_Replicators, req, a)
    /\ replicators' = Stored(replicators, req, a)
    /\ pcols' = Handled(pcols, P_Collections, req, a)
    /\ pdocs' = Handled(pdocs, P_Documents, req, a)
    /\ UNCHANGED tasks
    /\ UNCHANGED decVars
    /\ UNCHANGED mainVars

AddReplicator ==
    \E n \in Nodes, cs \in CollectionVecs :
    \E a \in ReplicatorAnswers(n, Range(cs)) :
        LET outcome == add_replicator(Answer(a))
        IN /\ Step("add_replicator", n, Names(cs),
                   AddReplicatorRequest(n, Peer(Other(n)), cs), a, outcome)
           /\ class' = IF outcome.kind = "panic" THEN "none" ELSE Classify(outcome)

RemoveReplicator ==
    \E n \in Nodes, cs \in CollectionVecs :
    \E a \in RemoveAnswers(n, Range(cs)) :
        /\ Step("remove_replicator", n, Names(cs),
                RemoveReplicatorRequest(n, Peer(Other(n)), cs), a,
                remove_replicator(Answer(a)))
        /\ UNCHANGED class

AddPeerCollections ==
    \E n \in Nodes, cs \in CollectionVecs, a \in OtherAnswers :
        /\ Step("add_peer_collections", n, Names(cs),
                AddPeerCollectionsRequest(n, cs), a,
                add_peer_collections(Answer(a)))
        /\ UNCHANGED class

RemovePeerCollections ==
    \E n \in Nodes, cs \in CollectionVecs, a \in OtherAnswers :
        /\ Step("remove_peer_collections", n, Names(cs),
                RemovePeerCollectionsRequest(n, cs), a,
                remove_peer_collections(Answer(a)))
        /\ UNCHANGED class

AddPeerDocuments ==
    \E n \in Nodes, ds \in DocVecs, a \in OtherAnswers :
        /\ Step("add_peer_documents", n, Names(ds),
                AddPeerDocumentsRequest(n, ds), a,
                add_peer_documents(Answer(a)))
        /\ UNCHANGED class

SyncDocuments ==
    \E n \in Nodes, c \in Collections, ds \in DocVecs,
       t \in {None, Some(TXT_30s)}, a \in SyncAnswers :
        /\ Step("sync_documents", n, SyncArgs(c, ds, t),
                SyncDocumentsRequest(n, c, ds, t), a,
                sync_documents(Answer(a)))
        /\ UNCHANGED class

----------------------------------------------------------------------------
(* main of p2p_networking.rs: the client side of each step                 *)

K_docID == <<"_","d","o","c","I","D">>
K_data == <<"d","a","t","a">>

\* The schema loop: send().await?, then status 200 or a body, read with
\* text().await?, that contains "already exists".
setup_schema(r) ==
    CASE r.kind = "sendErr" -> "raised"
      [] r.kind = "readErr" -> IF r.status = 200 THEN "ready" ELSE "raised"
      [] r.kind = "http" ->
           IF r.status = 200 \/ contains(r.text, TXT_AlreadyExists)
           THEN "ready" ELSE "notReady"

Kept(id) == [raised |-> FALSE, id |-> id]
Raised == [raised |-> TRUE, id |-> <<>>]

\* parsed["_docID"].as_str().unwrap_or(""), and String::new() when the body
\* is not JSON.
DocIdOf(v) ==
    IF v.ok THEN Kept(AsStrOrEmpty(Index(v.val, K_docID))) ELSE Kept(<<>>)

\* The match that gives user_doc_id, product_doc_id and message_doc_id:
\* the _docID of the body when it is a JSON object with a string there,
\* the empty string in every other case; text().await? may raise.
created_doc_id(r) ==
    CASE r.kind = "sendErr" -> Kept(<<>>)
      [] r.kind = "readErr" -> IF r.status = 200 THEN Raised ELSE Kept(<<>>)
      [] r.kind = "http" ->
           IF r.status = 200
           THEN DocIdOf(ParseJson(r.text))
           ELSE Kept(<<>>)

Seen(outcome, count) == [outcome |-> outcome, count |-> count]

\* json().await?, then result.get("data").and_then(|d| d.get(coll)) and
\* as_array().unwrap_or(&vec![]).len().
Counted(v, coll) ==
    IF ~v.ok THEN Seen("raised", 0)
    ELSE IF HasKey(v.val, K_data) /\ HasKey(Index(v.val, K_data), coll)
    THEN Seen("found", ArrayLen(Index(Index(v.val, K_data), coll)))
    ELSE Seen("silent", 0)

\* Query reading a status other than 200 as no rows.
Query_lenient(r, coll) ==
    CASE r.kind = "sendErr" -> Seen("printedError", 0)
      [] r.kind = "http" ->
           IF r.status # 200 THEN Seen("found", 0)
           ELSE Counted(ParseJson(r.text), coll)
      [] r.kind = "readErr" ->
           IF r.status # 200 THEN Seen("found", 0) ELSE Seen("raised", 0)

\* Query raising when the request cannot be sent.
Query_raising(r, coll) ==
    CASE r.kind = "sendErr" -> Seen("raised", 0)
      [] r.kind = "http" ->
           IF r.status # 200 THEN Seen("silent", 0)
           ELSE Counted(ParseJson(r.text), coll)
      [] r.kind = "readErr" ->
           IF r.status # 200 THEN Seen("silent", 0) ELSE Seen("raised", 0)

\* The match on the answer to one GraphQL query: a send error is printed;
\* a status other than 200 prints nothing; json().await? raises when the
\* body cannot be read or is not JSON; data.<collection>, when there, is
\* counted as an array.
Query(r, coll) ==
    CASE r.kind = "sendErr" -> Seen("printedError", 0)
      [] r.kind = "http" ->
           IF r.status # 200 THEN Seen("silent", 0)
           ELSE Counted(ParseJson(r.text), coll)
      [] r.kind = "readErr" ->
           IF r.status # 200 THEN Seen("silent", 0) ELSE Seen("raised", 0)

\* What main prints for a query: the count in steps 8 and 9, one of the two
\* replication lines in step 11.
Report(op, q) ==
    IF q.outcome # "found" THEN q.outcome
    ELSE IF op = "count" THEN "counted"
    ELSE IF q.count = 0 THEN "notSynced" ELSE "replicated"

\* The steps of main, in program order.  needs names the identifier that
\* must be non-empty for the step to be executed.
At(op, node, coll, needs, secs) ==
    [op |-> op, node |-> node, coll |-> coll, needs |-> needs, secs |-> secs]

Program ==
    << At("schema", 1, USER, "none", 0), At("schema", 1, PRODUCT, "none", 0),
       At("schema", 1, MESSAGE, "none", 0), At("schema", 2, USER, "none", 0),
       At("schema", 2, PRODUCT, "none", 0), At("schema", 2, MESSAGE, "none", 0),
       At("get_peer_info", 1, <<>>, "none", 0),
       At("get_peer_info", 2, <<>>, "none", 0),
       At("add_replicator", 1, USER, "none", 0),
       At("add_replicator", 2, PRODUCT, "none", 0),
       At("list_replicators", 1, <<>>, "none", 0),
       At("list_replicators", 2, <<>>, "none", 0),
       At("add_peer_collections", 1, PRODUCT, "none", 0),
       At("add_peer_collections", 2, MESSAGE, "none", 0),
       At("list_peer_collections", 1, <<>>, "none", 0),
       At("list_peer_collections", 2, <<>>, "none", 0),
       At("create", 1, USER, "none", 0),
       At("create", 2, PRODUCT, "none", 0),
       At("create", 1, MESSAGE, "none", 0),
       At("sleep", 0, <<>>, "none", 3),
       At("count", 1, USER, "none", 0), At("count", 2, USER, "none", 0),
       At("count", 1, PRODUCT, "none", 0), At("count", 2, PRODUCT, "none", 0),
       At("sync_documents", 2, MESSAGE, "message", 0),
       At("sleep", 0, <<>>, "message", 2),
       At("count", 2, MESSAGE, "message", 0),
       At("add_peer_documents", 1, MESSAGE, "message", 0),
       At("list_peer_documents", 1, <<>>, "message", 0),
       At("add_peer_documents", 2, PRODUCT, "product", 0),
       At("list_peer_documents", 2, <<>>, "product", 0),
       At("create_more", 1, USER, "none", 0),
       At("create_more", 2, PRODUCT, "none", 0),
       At("sleep", 0, <<>>, "none", 3),
       At("check", 2, USER, "none", 0),
       At("check", 1, PRODUCT, "none", 0) >>

\* Executed without the test of the identifier.
Executed_always(i, d) == TRUE

\* The if around steps 9 and 10.
Executed(i, d) ==
    \/ Program[i].needs = "none"
    \/ Program[i].needs = "message" /\ d.message # <<>>
    \/ Program[i].needs = "product" /\ d.product # <<>>

RECURSIVE NextAt(_, _)
NextAt(i, d) ==
    IF i > Len(Program) THEN i
    ELSE IF Executed(i, d) THEN i
    ELSE NextAt(i + 1, d)

\* Running letting main go on after the process was ended.
Running_regardless == exit \in {"run", "killed"} /\ mpc \in DOMAIN Program

Running == exit = "run" /\ mpc \in DOMAIN Program

Here == Program[mpc]

\* main goes on to its next step, and returns Ok(()) after the last.
Continue(d) ==
    /\ mpc' = NextAt(mpc + 1, d)
    /\ exit' = IF NextAt(mpc + 1, d) > Len(Program) THEN "ok" ELSE "run"

\* main ends here: "ok" (return Ok(())), "err" (an error raised with ?),
\* "panic" (an unwrap failed).
Stop(how) == mpc' = mpc /\ exit' = how

\* What the log records of a request and of a sleep.
Event(at, kind, node, path, secs) ==
    [at |-> at, kind |-> kind, node |-> node, path |-> path, secs |-> secs]

Sent(reqs) ==
    [i \in DOMAIN reqs |->
        Event(mpc, reqs[i].method, reqs[i].node, reqs[i].path, 0)]

----------------------------------------------------------------------------
(* main of p2p_networking.rs: the answers of the nodes                     *)

RECURSIVE SetToSeq(_)
SetToSeq(S) ==
    IF S = {} THEN <<>>
    ELSE LET x == CHOOSE x \in S : TRUE IN <<x>> \o SetToSeq(S \ {x})

RenderList(v) ==
    <<"[">> \o join([i \in DOMAIN v |-> Quoted(v[i])], <<",">>) \o <<"]">>

RenderPeer(p) ==
    <<"{">> \o Member(F_ID, p.id) \o <<",">>
            \o Quoted(F_Addresses) \o <<":">> \o RenderList(p.addresses)
            \o <<"}">>

\* The replicators of node n: one, to the other node, when it holds any.
RenderReplicators(n) ==
    IF reps[n] = {} THEN <<"[", "]">>
    ELSE <<"[", "{">> \o Quoted(F_Info) \o <<":">> \o RenderPeer(Peer(Other(n)))
         \o <<",">> \o Quoted(F_CollectionIDs) \o <<":">>
         \o RenderList(SetToSeq(reps[n]))
         \o <<",">> \o Quoted(F_Status) \o <<":", "1", ",">>
         \o Member(F_LastStatusChange, <<>>) \o <<"}", "]">>

RECURSIVE RenderRowList(_)
RenderRowList(k) ==
    IF k = 0 THEN <<>>
    ELSE <<"{">> \o Member(K_docID, DOC1) \o <<"}">>
         \o (IF k > 1 THEN <<",">> ELSE <<>>) \o RenderRowList(k - 1)

\* {"data":{"<collection>":[ k rows ]}}
RenderRows(coll, k) ==
    <<"{">> \o Quoted(K_data) \o <<":", "{">> \o Quoted(coll) \o <<":", "[">>
            \o RenderRowList(k) \o <<"]", "}", "}">>

TXT_NoData == <<"{">> \o Quoted(<<"e","r","r","o","r","s">>) \o <<":", "[", "]", "}">>

Unread(status) == [kind |-> "readErr", status |-> status, text |-> <<>>]

SchemaAnswers == {"accepted", "duplicate", "rejected", "unread", "unreachable"}
SchemaAnswer(a) == IF a = "unread" THEN Unread(400) ELSE Answer(a)

GetAnswers == {"accepted", "garbled", "rejected", "gateway", "unreachable"}
InfoAnswer(n, a) ==
    IF a = "accepted" THEN Http(200, RenderPeer(Peer(n)))
    ELSE IF a = "garbled" THEN Http(200, TXT_Plain)
    ELSE Answer(a)

ListAnswer(n, path, a) ==
    IF a = "accepted"
    THEN Http(200, IF path = P_Replicators THEN RenderReplicators(n)
                   ELSE IF path = P_Collections THEN RenderList(SetToSeq(pcols[n]))
                   ELSE RenderList(SetToSeq(pdocs[n])))
    ELSE IF a = "garbled" THEN Http(200, TXT_Plain)
    ELSE Answer(a)

CreateAnswers ==
    {"created", "createdEmpty", "createdList", "garbled", "unread", "rejected",
     "unreachable"}
CreateAnswer(a, id) ==
    IF a = "created" THEN Http(200, <<"{">> \o Member(K_docID, id) \o <<"}">>)
    ELSE IF a = "createdEmpty"
    THEN Http(200, <<"{">> \o Member(K_docID, <<>>) \o <<"}">>)
    ELSE IF a = "createdList"
    THEN Http(200, <<"[", "{">> \o Member(K_docID, id) \o <<"}", "]">>)
    ELSE IF a = "garbled" THEN Http(200, TXT_Plain)
    ELSE IF a = "unread" THEN Unread(200)
    ELSE Answer(a)

QueryAnswers ==
    {"rows", "noData", "garbled", "unread", "rejected", "unreachable"}
QueryAnswer(a, coll, k) ==
    IF a = "rows" THEN Http(200, RenderRows(coll, k))
    ELSE IF a = "noData" THEN Http(200, TXT_NoData)
    ELSE IF a = "garbled" THEN Http(200, TXT_Plain)
    ELSE IF a = "unread" THEN Unread(200)
    ELSE Answer(a)

\* The rows a node answers a query with: none when no document of the
\* queried kind is on the node at that time, one when one is.
Rows == {0, 1}

\* A task: the calls it makes, the index of the next one, where it is in
\* that call, the request or the answer in flight, and what the calls made
\* so far returned.
NoTask == [program |-> <<>>, at |-> 1, phase |-> "idle", flight |-> <<>>,
           results |-> <<>>]
NoTasks == [n \in Nodes |-> NoTask]

NoVerdict ==
    [at |-> 0, answer |-> "none", present |-> FALSE, outcome |-> "none",
     count |-> 0]

MainIdle ==
    /\ mpc = 0
    /\ exit = "idle"
    /\ peers = [n \in Nodes |-> NoPeer]
    /\ kept_ids = [product |-> <<>>, message |-> <<>>]
    /\ verdict = NoVerdict
    /\ log = <<>>

P2PIdle ==
    /\ wpc = "run"
    /\ reps = [n \in Nodes |-> {}]
    /\ replicators = [n \in Nodes |-> <<>>]
    /\ pcols = [n \in Nodes |-> {}]
    /\ pdocs = [n \in Nodes |-> {}]
    /\ call = NoCall
    /\ class = "none"
    /\ nCalls = 0
    /\ tasks = NoTasks

DecIdle ==
    /\ pc = "idle"
    /\ emitted = <<>>
    /\ resp = NoAnswer("none")
    /\ result = NoResult
    /\ colmain = NoColl

Init == DecInit /\ P2PIdle /\ MainIdle

Next == GetDocumentIds

\* The decoder call.
Spec == Init /\ [][Next]_vars

P2PNext ==
    \/ AddReplicator
    \/ RemoveReplicator
    \/ AddPeerCollections
    \/ RemovePeerCollections
    \/ AddPeerDocuments
    \/ SyncDocuments

P2PInit == DecIdle /\ P2PIdle /\ MainIdle

\* The p2p session.
P2PSpec == P2PInit /\ [][P2PNext]_vars

----------------------------------------------------------------------------
(* Sessions of add_replicator and remove_replicator for any target         *)

\* The collection vectors of these sessions, the empty one among them.
RepVecs == {<<>>, <<USER>>, <<PRODUCT>>, <<USER, PRODUCT>>}

\* One call of a replicator wrapper: as Step, with the collections a node
\* replicates read from the replicators it holds.
RepStep(op, n, args, req, a, outcome) ==
    /\ wpc = "run"
    /\ nCalls < MaxCalls
    /\ nCalls' = nCalls + 1
    /\ call' = Called(op, n, args, Attempts(req, Answer(a)), a, outcome)
    /\ wpc' = IF outcome.kind = "panic" THEN "aborted" ELSE "run"
    /\ replicators' = Stored(replicators, req, a)
    /\ reps' = [m \in Nodes |-> CollectionsOf(replicators'[m])]
    /\ UNCHANGED <<pcols, pdocs, class, tasks>>
    /\ UNCHANGED decVars
    /\ UNCHANGED mainVars

AddReplicatorTo ==
    \E n \in Nodes, t \in Nodes, cs \in RepVecs :
    \E a \in RepAnswers(replicators[n], AddReplicatorRequest(n, Peer(t), cs)) :
        RepStep("add_replicator", n, PeerArgs(Peer(t), cs),
                AddReplicatorRequest(n, Peer(t), cs), a,
                add_replicator(Answer(a)))

RemoveReplicatorFrom ==
    \E n \in Nodes, t \in Nodes, cs \in RepVecs :
    \E a \in RepAnswers(replicators[n], RemoveReplicatorRequest(n, Peer(t), cs)) :
        RepStep("remove_replicator", n, PeerArgs(Peer(t), cs),
                RemoveReplicatorRequest(n, Peer(t), cs), a,
                remove_replicator(Answer(a)))

\* The Status values a node may put into the replicators it lists.
StatusValues == {0, 1, 7, 255, 256, 1000, -1}

DigitChar(d) == CHOOSE c \in Digits : DigitValue(c) = d

RECURSIVE RenderNat(_)
RenderNat(k) ==
    IF k < 10 THEN <<DigitChar(k)>>
    ELSE RenderNat(k \div 10) \o <<DigitChar(k % 10)>>

RenderInt(k) == IF k < 0 THEN <<"-">> \o RenderNat(0 - k) ELSE RenderNat(k)

PeerWithId(id) == IF id = PEER_1 THEN Peer(1) ELSE Peer(2)

\* The replicators a node holds, as it lists them, each with Status k.
RenderHeld(list, k) ==
    <<"[">>
    \o join([i \in DOMAIN list |->
                <<"{">> \o Quoted(F_Info) \o <<":">>
                \o RenderPeer(PeerWithId(list[i].id))
                \o <<",">> \o Quoted(F_CollectionIDs) \o <<":">>
                \o RenderList(SetToSeq(list[i].collections))
                \o <<",">> \o Quoted(F_Status) \o <<":">> \o RenderInt(k)
                \o <<",">> \o Member(F_LastStatusChange, <<>>) \o <<"}">>],
            <<",">>)
    \o <<"]">>

HeldAnswer(list, a, k) ==
    IF a = "accepted" THEN Http(200, RenderHeld(list, k))
    ELSE IF a = "garbled" THEN Http(200, TXT_Plain)
    ELSE Answer(a)

ListReplicatorsOf ==
    \E n \in Nodes, k \in StatusValues, a \in GetAnswers :
        /\ wpc = "run"
        /\ nCalls < MaxCalls
        /\ nCalls' = nCalls + 1
        /\ call' = [op |-> "list_replicators", node |-> n, args |-> NoArgs,
                    sent |-> Attempts(ListReplicatorsRequest(n),
                                      HeldAnswer(replicators[n], a, k)),
                    answer |-> a, resp |-> HeldAnswer(replicators[n], a, k),
                    outcome |-> list_replicators(HeldAnswer(replicators[n], a, k)),
                    told |-> k]
        /\ wpc' = IF list_replicators(HeldAnswer(replicators[n], a, k)).kind = "panic"
                  THEN "aborted" ELSE "run"
        /\ UNCHANGED <<reps, replicators, pcols, pdocs, class, tasks>>
        /\ UNCHANGED decVars
        /\ UNCHANGED mainVars

RepNext ==
    \/ AddReplicatorTo
    \/ RemoveReplicatorFrom
    \/ ListReplicatorsOf

\* The sessions of replicator calls.
RepSpec == P2PInit /\ [][RepNext]_vars

----------------------------------------------------------------------------
(* main of collection_operations.rs                                        *)

\* The wrapper calls of main, in the order of the text: steps 1 to 10.
CollProgram ==
    << "create_document", "create_documents", "get_document_ids",
       "get_document", "update_document", "update_documents_with_filter",
       "delete_documents_with_filter", "get_document_ids", "delete_document",
       "create_document", "delete_documents_with_filter" >>

\* The lines of the stream the node answers the listing of step 8 with.
MaxAgain == 1

TXT_Collections == <<"/","c","o","l","l","e","c","t","i","o","n","s","/">>

\* format!("{}/collections/{}/{}", base_url, collection_name, doc_id)
DocumentUrl(collection_name, doc_id) ==
    TXT_Collections \o collection_name \o <<"/">> \o doc_id

\* FirstId taking the last identifier.
FirstId_last(ids) == ids[Len(ids)]

\* &ids[0] and &keys[0]
FirstId(ids) == ids[1]

\* if !ids.is_empty() inside the Ok arm.
Usable(r) == r.ok /\ r.ids # <<>>

TXT_ParseDocument == <<"F","a","i","l","e","d"," ","t","o"," ","p","a","r","s","e"," ","d","o","c","u","m","e","n","t",":"," ">>

get_document(r) ==
    CASE r.kind = "sendErr" -> Failed(TXT_RequestFailed \o TXT_SendError)
      [] r.kind = "http" ->
           IF r.status = 200
           THEN IF ParseJson(r.text).ok THEN Returned
                ELSE Failed(TXT_ParseDocument \o TXT_BodyError)
           ELSE ErrorResponse(r.status, r.text)

update_document(r) == UnitWrapper(r)
delete_document(r) == UnitWrapper(r)

\* The answers of the node to a request for one document.
DocumentAnswers == {"accepted", "garbled", "rejected", "gateway", "unreachable"}
DocumentAnswer(a) ==
    IF a = "accepted" THEN Http(200, <<"{", "}">>)
    ELSE IF a = "garbled" THEN Http(200, TXT_Plain)
    ELSE Answer(a)

CollRunning == colmain.exit = "run" /\ colmain.at \in DOMAIN CollProgram
CollHere == CollProgram[colmain.at]

\* main goes on with step i, and returns Ok(()) after the last.
CollAt(i, used) ==
    [at |-> i, exit |-> IF i > Len(CollProgram) THEN "ok" ELSE "run",
     used |-> used]

\* An unwrap of the wrapper called at this step failed.
CollPanicked(used) == [at |-> colmain.at, exit |-> "panic", used |-> used]

\* ids (keys) goes out of scope at the end of the match on the listing.
Dropped ==
    /\ pc' = "idle"
    /\ emitted' = <<>>
    /\ resp' = NoAnswer("none")
    /\ result' = NoResult

CollInit ==
    /\ pc = "idle"
    /\ emitted = <<>>
    /\ resp = NoAnswer("none")
    /\ result = NoResult
    /\ colmain = CollAt(1, <<>>)
    /\ P2PIdle /\ MainIdle

\* Steps 1, 2, 6, 7, 9 and 10: a wrapper that takes no identifier; main
\* prints what it returned.
OtherCall ==
    /\ CollRunning
    /\ CollHere \notin {"get_document_ids", "get_document", "update_document",
                        "delete_document"}
    /\ \E a \in OtherAnswers :
          colmain' = IF UnitWrapper(Answer(a)).kind = "panic"
                     THEN CollPanicked(colmain.used)
                     ELSE CollAt(colmain.at + 1, colmain.used)
    /\ UNCHANGED <<pc, resp, emitted, result>>
    /\ UNCHANGED p2pVars
    /\ UNCHANGED mainVars

\* The streams the node may answer a listing with: any at step 3, the short
\* ones at step 8.
Listings == IF colmain.at = 3 THEN Emissions
            ELSE UNION { [1..n -> StreamLines] : n \in 0..MaxAgain }

\* What main does with the result of a listing: the calls for the first
\* identifier follow when there is one, the steps behind them otherwise.
Matched(r, e, res) ==
    /\ resp' = r
    /\ emitted' = e
    /\ result' = res
    /\ pc' = "done"
    /\ colmain' = IF Usable(res) THEN CollAt(colmain.at + 1, colmain.used)
                  ELSE CollAt(IF colmain.at = 3 THEN 6 ELSE 10, colmain.used)

\* Steps 3 and 8: get_document_ids and the match on its result.
ListDocumentIds ==
    /\ CollRunning /\ CollHere = "get_document_ids"
    /\ \/ \E e \in Listings, st \in {200, 404} :
             Matched(Http(st, Render(e)), e, get_document_ids(Http(st, Render(e))))
       \/ \E k \in {"sendErr", "readErr"} :
             Matched(NoAnswer(k), <<>>, get_document_ids(NoAnswer(k)))
    /\ UNCHANGED p2pVars
    /\ UNCHANGED mainVars

\* A call for the first identifier: the request is sent, and main prints
\* what the wrapper returned unless it panicked.
ForFirst(method, outcome, last) ==
    LET sent == Append(colmain.used,
                       [method |-> method,
                        url |-> DocumentUrl(USER, FirstId(result.ids))])
    IN /\ colmain' = IF outcome.kind = "panic" THEN CollPanicked(sent)
                     ELSE CollAt(colmain.at + 1, sent)
       /\ IF last \/ outcome.kind = "panic" THEN Dropped
          ELSE UNCHANGED <<pc, resp, emitted, result>>

\* Step 4.
GetDocument ==
    /\ CollRunning /\ CollHere = "get_document"
    /\ \E a \in DocumentAnswers :
          ForFirst("GET", get_document(DocumentAnswer(a)), FALSE)
    /\ UNCHANGED p2pVars
    /\ UNCHANGED mainVars

\* Step 5.
UpdateDocument ==
    /\ CollRunning /\ CollHere = "update_document"
    /\ \E a \in OtherAnswers :
          ForFirst("PATCH", update_document(Answer(a)), TRUE)
    /\ UNCHANGED p2pVars
    /\ UNCHANGED mainVars

\* Step 8, the Ok arm with keys.
DeleteDocument ==
    /\ CollRunning /\ CollHere = "delete_document"
    /\ \E a \in OtherAnswers :
          ForFirst("DELETE", delete_document(Answer(a)), TRUE)
    /\ UNCHANGED p2pVars
    /\ UNCHANGED mainVars

CollNext ==
    \/ OtherCall
    \/ ListDocumentIds
    \/ GetDocument
    \/ UpdateDocument
    \/ DeleteDocument

\* main of collection_operations.rs.
CollSpec == CollInit /\ [][CollNext]_vars

----------------------------------------------------------------------------
(* Wrapper calls on the two nodes run concurrently                         *)

\* The length of the program of a task.
MaxProgram == 2

\* The calls a task may make on its node.
TaskCalls ==
    { [op |-> "add_peer_collections", names |-> <<USER>>],
      [op |-> "add_peer_collections", names |-> <<PRODUCT>>],
      [op |-> "remove_peer_collections", names |-> <<USER>>],
      [op |-> "list_peer_collections", names |-> <<>>] }

\* The request the wrapper of call c builds for base url n.
RequestOf(c, n) ==
    IF c.op = "add_peer_collections" THEN AddPeerCollectionsRequest(n, c.names)
    ELSE IF c.op = "remove_peer_collections"
    THEN RemovePeerCollectionsRequest(n, c.names)
    ELSE ListPeerCollectionsRequest(n)

\* What the wrapper of call c returns for the answer r.
OutcomeOf(c, r) ==
    IF c.op = "add_peer_collections" THEN add_peer_collections(r)
    ELSE IF c.op = "remove_peer_collections" THEN remove_peer_collections(r)
    ELSE list_peer_collections(r)

\* The answer of the node that receives req, given the peer collections
\* the nodes hold, and what they hold afterwards.
Served(held, req) ==
    IF req.method = "GET" /\ req.path = P_Collections
    THEN Http(200, RenderList(SetToSeq(held[req.node])))
    ELSE Http(200, <<>>)

\* The calls run one after the other: first those of task 1, then those
\* of task 2.  run is [held, results].
RECURSIVE Sequentially(_, _, _, _)
Sequentially(programs, n, i, run) ==
    IF n > 2 THEN run
    ELSE IF i > Len(programs[n]) THEN Sequentially(programs, n + 1, 1, run)
    ELSE Sequentially(programs, n, i + 1,
            [held |-> Handled(run.held, P_Collections,
                              RequestOf(programs[n][i], n), "accepted"),
             results |->
                [run.results EXCEPT ![n] =
                    Append(@, OutcomeOf(programs[n][i],
                                        Served(run.held,
                                               RequestOf(programs[n][i], n))))]])

Idle(n) == tasks[n].phase = "idle" /\ tasks[n].at <= Len(tasks[n].program)

\* The task of node n sends the request of its next call.
SendRequest ==
    \E n \in Nodes :
        /\ Idle(n)
        /\ tasks' = [tasks EXCEPT ![n].phase = "sent",
                                  ![n].flight =
                                      RequestOf(tasks[n].program[tasks[n].at], n)]
        /\ UNCHANGED <<wpc, reps, replicators, pcols, pdocs, call, class, nCalls>>
        /\ UNCHANGED decVars
        /\ UNCHANGED mainVars

\* The node the request was sent to handles it and answers.
HandleRequest ==
    \E n \in Nodes :
        /\ tasks[n].phase = "sent"
        /\ pcols' = Handled(pcols, P_Collections, tasks[n].flight, "accepted")
        /\ tasks' = [tasks EXCEPT ![n].phase = "answered",
                                  ![n].flight = Served(pcols, tasks[n].flight)]
        /\ UNCHANGED <<wpc, reps, replicators, pdocs, call, class, nCalls>>
        /\ UNCHANGED decVars
        /\ UNCHANGED mainVars

\* The wrapper reads the answer and returns.
ReturnResult ==
    \E n \in Nodes :
        /\ tasks[n].phase = "answered"
        /\ tasks' = [tasks EXCEPT
                        ![n].phase = "idle",
                        ![n].flight = <<>>,
                        ![n].at = @ + 1,
                        ![n].results =
                            Append(@, OutcomeOf(tasks[n].program[tasks[n].at],
                                                tasks[n].flight))]
        /\ UNCHANGED <<wpc, reps, replicators, pcols, pdocs, call, class, nCalls>>
        /\ UNCHANGED decVars
        /\ UNCHANGED mainVars

Programs == [1..MaxProgram -> TaskCalls]

ConcInit ==
    /\ DecIdle /\ MainIdle
    /\ wpc = "run"
    /\ reps = [n \in Nodes |-> {}]
    /\ replicators = [n \in Nodes |-> <<>>]
    /\ pcols = [n \in Nodes |-> {}]
    /\ pdocs = [n \in Nodes |-> {}]
    /\ call = NoCall
    /\ class = "none"
    /\ nCalls = 0
    /\ tasks \in {[n \in Nodes |-> [NoTask EXCEPT !.program = ps[n]]] :
                     ps \in [Nodes -> Programs]}

ConcNext ==
    \/ SendRequest
    \/ HandleRequest
    \/ ReturnResult

\* Two tasks, one per node, whose calls interleave at every request sent,
\* request handled and answer read.
ConcSpec == ConcInit /\ [][ConcNext]_vars

----------------------------------------------------------------------------
(* main of p2p_networking.rs: one action per kind of step                  *)

CalledWith(op, n, args, sent, a, r, outcome) ==
    [op |-> op, node |-> n, args |-> args, sent |-> sent, answer |-> a,
     resp |-> r, outcome |-> outcome, told |-> 0]

\* A wrapper called by main: the requests are logged, the node changes what
\* it holds, and main goes on unless the wrapper panicked.
Wrapped(op, args, req, a, r, outcome) ==
    /\ call' = CalledWith(op, Here.node, args, Attempts(req, r), a, r, outcome)
    /\ log' = log \o Sent(Attempts(req, r))
    /\ reps' = Handled(reps, P_Replicators, req, a)
    /\ replicators' = Stored(replicators, req, a)
    /\ pcols' = Handled(pcols, P_Collections, req, a)
    /\ pdocs' = Handled(pdocs, P_Documents, req, a)
    /\ UNCHANGED <<decVars, wpc, nCalls, tasks>>

SetupSchema ==
    /\ Running /\ Here.op = "schema"
    /\ \E a \in SchemaAnswers :
          /\ log' = log \o Sent(<<Request("POST", Here.node, "/schema", Here.coll)>>)
          /\ IF setup_schema(SchemaAnswer(a)) = "raised"
             THEN Stop("err") ELSE Continue(kept_ids)
    /\ UNCHANGED <<decVars, p2pVars, peers, kept_ids, verdict>>

\* GetPeerInfo going on to the next step with the peer information it has
\* when get_peer_info returned Err.
GetPeerInfo_continuing ==
    /\ Running /\ Here.op = "get_peer_info"
    /\ \E a \in GetAnswers :
          LET r == InfoAnswer(Here.node, a)
              outcome == get_peer_info(r)
          IN /\ Wrapped("get_peer_info", NoArgs, GetPeerInfoRequest(Here.node),
                        a, r, outcome)
             /\ peers' = IF outcome.kind = "ok"
                         THEN [peers EXCEPT ![Here.node] = outcome.val]
                         ELSE peers
             /\ IF outcome.kind = "panic" THEN Stop("panic")
                ELSE Continue(kept_ids)
    /\ UNCHANGED <<class, kept_ids, verdict>>

GetPeerInfo ==
    /\ Running /\ Here.op = "get_peer_info"
    /\ \E a \in GetAnswers :
          LET r == InfoAnswer(Here.node, a)
              outcome == get_peer_info(r)
          IN /\ Wrapped("get_peer_info", NoArgs, GetPeerInfoRequest(Here.node),
                        a, r, outcome)
             /\ peers' = IF outcome.kind = "ok"
                         THEN [peers EXCEPT ![Here.node] = outcome.val]
                         ELSE peers
             /\ IF outcome.kind = "ok" THEN Continue(kept_ids)
                ELSE IF outcome.kind = "err" THEN Stop("ok")
                ELSE Stop("panic")
    /\ UNCHANGED <<class, kept_ids, verdict>>

\* The steps that call a wrapper and print what it returned.
Proceed(outcome) ==
    IF outcome.kind = "panic" THEN Stop("panic") ELSE Continue(kept_ids)

MainAddReplicator ==
    /\ Running /\ Here.op = "add_replicator"
    /\ \E a \in ReplicatorAnswers(Here.node, {Here.coll}) :
          LET r == Answer(a)
              outcome == add_replicator(r)
          IN /\ Wrapped("add_replicator", Names(<<Here.coll>>),
                        AddReplicatorRequest(Here.node, peers[Other(Here.node)],
                                             <<Here.coll>>),
                        a, r, outcome)
             /\ class' = IF outcome.kind = "panic" THEN "none" ELSE Classify(outcome)
             /\ Proceed(outcome)
    /\ UNCHANGED <<peers, kept_ids, verdict>>

ListReplicators ==
    /\ Running /\ Here.op = "list_replicators"
    /\ \E a \in GetAnswers :
          LET r == ListAnswer(Here.node, P_Replicators, a)
              outcome == list_replicators(r)
          IN /\ Wrapped("list_replicators", NoArgs,
                        ListReplicatorsRequest(Here.node), a, r, outcome)
             /\ Proceed(outcome)
    /\ UNCHANGED <<class, peers, kept_ids, verdict>>

MainAddPeerCollections ==
    /\ Running /\ Here.op = "add_peer_collections"
    /\ \E a \in OtherAnswers :
          LET r == Answer(a)
              outcome == add_peer_collections(r)
          IN /\ Wrapped("add_peer_collections", Names(<<Here.coll>>),
                        AddPeerCollectionsRequest(Here.node, <<Here.coll>>),
                        a, r, outcome)
             /\ Proceed(outcome)
    /\ UNCHANGED <<class, peers, kept_ids, verdict>>

ListPeerCollections ==
    /\ Running /\ Here.op = "list_peer_collections"
    /\ \E a \in GetAnswers :
          LET r == ListAnswer(Here.node, P_Collections, a)
              outcome == list_peer_collections(r)
          IN /\ Wrapped("list_peer_collections", NoArgs,
                        ListPeerCollectionsRequest(Here.node), a, r, outcome)
             /\ Proceed(outcome)
    /\ UNCHANGED <<class, peers, kept_ids, verdict>>

\* The identifier the node gives to the document it creates.
NewId(coll) == IF coll = MESSAGE THEN DOC1 ELSE DOC2

\* Step 6: the three documents; the identifiers of the Product and of the
\* Message are kept.
CreateDocument ==
    /\ Running /\ Here.op = "create"
    /\ \E a \in CreateAnswers :
          LET r == CreateAnswer(a, NewId(Here.coll))
              made == created_doc_id(r)
              kept == IF Here.coll = PRODUCT THEN [kept_ids EXCEPT !.product = made.id]
                      ELSE IF Here.coll = MESSAGE
                      THEN [kept_ids EXCEPT !.message = made.id]
                      ELSE kept_ids
          IN /\ log' = log \o Sent(<<Request("POST", Here.node, "/collections",
                                             Here.coll)>>)
             /\ IF made.raised
                THEN Stop("err") /\ kept_ids' = kept_ids
                ELSE kept_ids' = kept /\ Continue(kept)
    /\ UNCHANGED <<decVars, p2pVars, peers, verdict>>

\* Step 11: the additional User and the additional Product.
CreateMore ==
    /\ Running /\ Here.op = "create_more"
    /\ \E a \in {"created", "rejected", "unreachable"} :
          /\ log' = log \o Sent(<<Request("POST", Here.node, "/collections",
                                          Here.coll)>>)
          /\ Continue(kept_ids)
    /\ UNCHANGED <<decVars, p2pVars, peers, kept_ids, verdict>>

\* Sleep going on without waiting.
Sleep_skipped ==
    /\ Running /\ Here.op = "sleep"
    /\ Continue(kept_ids)
    /\ UNCHANGED <<decVars, p2pVars, peers, kept_ids, verdict, log>>

\* sleep(Duration::from_secs(n)).await
Sleep ==
    /\ Running /\ Here.op = "sleep"
    /\ log' = Append(log, Event(mpc, "sleep", 0, "", Here.secs))
    /\ Continue(kept_ids)
    /\ UNCHANGED <<decVars, p2pVars, peers, kept_ids, verdict>>

\* One GraphQL query and what main prints for it: the counts of step 8 and
\* of step 9, and the two checks of step 11.
Verify ==
    /\ Running /\ Here.op \in {"count", "check"}
    /\ \E a \in QueryAnswers, k \in Rows :
          LET r == QueryAnswer(a, Here.coll, k)
              q == Query(r, Here.coll)
          IN /\ log' = log \o Sent(<<Request("POST", Here.node, P_GraphQL,
                                             Here.coll)>>)
             /\ verdict' = [at |-> mpc, answer |-> a, present |-> k > 0,
                            outcome |-> Report(Here.op, q), count |-> q.count]
             /\ IF q.outcome = "raised" THEN Stop("err") ELSE Continue(kept_ids)
    /\ UNCHANGED <<decVars, p2pVars, peers, kept_ids>>

\* MainSyncDocuments reading the Ok of sync_documents as the presence of the
\* document on the node.
MainSyncDocuments_trusting ==
    /\ Running /\ Here.op = "sync_documents"
    /\ \E a \in SyncAnswers :
          /\ Wrapped("sync_documents",
                     SyncArgs(Here.coll, <<kept_ids.message>>, Some(TXT_30s)),
                     SyncDocumentsRequest(Here.node, Here.coll, <<kept_ids.message>>,
                                          Some(TXT_30s)),
                     a, Answer(a), sync_documents(Answer(a)))
          /\ verdict' = [at |-> mpc, answer |-> a, present |-> FALSE,
                         outcome |-> IF sync_documents(Answer(a)).kind = "ok"
                                     THEN "replicated" ELSE "notSynced",
                         count |-> 0]
          /\ Proceed(sync_documents(Answer(a)))
    /\ UNCHANGED <<class, peers, kept_ids>>

\* Step 9: the forced sync of the Message on node 2.
MainSyncDocuments ==
    /\ Running /\ Here.op = "sync_documents"
    /\ \E a \in SyncAnswers :
          LET r == Answer(a)
              outcome == sync_documents(r)
          IN /\ Wrapped("sync_documents",
                        SyncArgs(Here.coll, <<kept_ids.message>>, Some(TXT_30s)),
                        SyncDocumentsRequest(Here.node, Here.coll, <<kept_ids.message>>,
                                             Some(TXT_30s)),
                        a, r, outcome)
             /\ Proceed(outcome)
    /\ UNCHANGED <<class, peers, kept_ids, verdict>>

\* Step 10: the document gating of the Message and of the Product.
MainAddPeerDocuments ==
    /\ Running /\ Here.op = "add_peer_documents"
    /\ \E a \in OtherAnswers :
          LET r == Answer(a)
              outcome == add_peer_documents(r)
              id == IF Here.coll = MESSAGE THEN kept_ids.message ELSE kept_ids.product
          IN /\ Wrapped("add_peer_documents", Names(<<id>>),
                        AddPeerDocumentsRequest(Here.node, <<id>>), a, r, outcome)
             /\ Proceed(outcome)
    /\ UNCHANGED <<class, peers, kept_ids, verdict>>

ListPeerDocuments ==
    /\ Running /\ Here.op = "list_peer_documents"
    /\ \E a \in GetAnswers :
          LET r == ListAnswer(Here.node, P_Documents, a)
              outcome == list_peer_documents(r)
          IN /\ Wrapped("list_peer_documents", NoArgs,
                        ListPeerDocumentsRequest(Here.node), a, r, outcome)
             /\ Proceed(outcome)
    /\ UNCHANGED <<class, peers, kept_ids, verdict>>

\* The process is ended from outside.
Kill ==
    /\ exit = "run"
    /\ exit' = "killed"
    /\ UNCHANGED <<decVars, p2pVars, mpc, peers, kept_ids, verdict, log>>

\* The start of main.  The nodes may hold the replicators of an earlier run.
MainInit ==
    /\ DecIdle
    /\ wpc = "idle"
    /\ reps \in {[n \in Nodes |-> {}],
                 [n \in Nodes |-> IF n = 1 THEN {USER} ELSE {PRODUCT}]}
    /\ replicators =
          [n \in Nodes |->
              IF reps[n] = {} THEN <<>>
              ELSE <<[id |-> Peer(Other(n)).id, collections |-> reps[n]]>>]
    /\ pcols = [n \in Nodes |-> {}]
    /\ pdocs = [n \in Nodes |-> {}]
    /\ call = NoCall
    /\ class = "none"
    /\ nCalls = 0
    /\ tasks = NoTasks
    /\ mpc = 1
    /\ exit = "run"
    /\ peers = [n \in Nodes |-> NoPeer]
    /\ kept_ids = [product |-> <<>>, message |-> <<>>]
    /\ verdict = NoVerdict
    /\ log = <<>>

MainNext ==
    \/ SetupSchema
    \/ GetPeerInfo
    \/ MainAddReplicator
    \/ ListReplicators
    \/ MainAddPeerCollections
    \/ ListPeerCollections
    \/ CreateDocument
    \/ Sleep
    \/ Verify
    \/ MainSyncDocuments
    \/ MainAddPeerDocuments
    \/ ListPeerDocuments
    \/ CreateMore

\* main of p2p_networking.rs against two nodes.
MainSpec == MainInit /\ [][MainNext]_vars

KillNext ==
    \/ MainNext
    \/ Kill

\* main, in a process that may be ended from outside at any step.
KillSpec == MainInit /\ [][KillNext]_vars

----------------------------------------------------------------------------
(* Properties of the p2p wrappers                                          *)

Answered == call.op # "none" /\ call.resp.kind = "http"

\* C9: on a non-200 response a wrapper returns Err, with the error member
\* of the body when the body is {error: string} and with a generic
\* description holding the raw body otherwise; it neither panics nor
\* returns Ok.
C9_ErrorAlwaysReturned ==
    (Answered /\ call.resp.status # 200) =>
        /\ call.outcome.kind = "err"
        /\ call.answer = "duplicate" => call.outcome.msg = MSG_Exists
        /\ call.answer = "rejected" => call.outcome.msg = MSG_Unknown
        /\ call.answer = "gateway" => contains(call.outcome.msg, call.resp.text)

\* C10: an add_replicator for a directive the node holds already fails
\* with a message containing "already exists" and is classified as
\* alreadyExists; an accepted add is classified as added; a rejection whose
\* message does not contain the text is never classified as alreadyExists.
C10_AlreadyExists ==
    call.op = "add_replicator" =>
        /\ call.answer = "accepted" => class = "added"
        /\ call.answer = "duplicate" =>
              /\ Range(call.args.names) \subseteq reps[call.node]
              /\ contains(call.outcome.msg, TXT_AlreadyExists)
              /\ class = "alreadyExists"
        /\ class = "alreadyExists" =>
              /\ call.outcome.kind = "err"
              /\ contains(call.outcome.msg, TXT_AlreadyExists)
        /\ (call.outcome.kind = "err"
              /\ ~contains(call.outcome.msg, TXT_AlreadyExists))
              => class = "error"

\* The second of two adds of the same collections on the same node.
C10_Witness ==
    /\ nCalls = 2
    /\ call.op = "add_replicator" /\ call.answer = "duplicate"
    /\ reps[call.node] = Range(call.args.names)
    /\ class = "alreadyExists"

MechanismOps ==
    {"add_replicator", "remove_replicator", "add_peer_collections",
     "remove_peer_collections", "add_peer_documents"}

EndpointOf(op) ==
    IF op \in {"add_replicator", "remove_replicator"} THEN P_Replicators
    ELSE IF op \in {"add_peer_collections", "remove_peer_collections"}
    THEN P_Collections
    ELSE P_Documents

\* A call of the session has just been made.
CallMade == nCalls' = nCalls + 1

\* C11: an add or a remove on one of the three mechanisms of a node sends
\* its request to the endpoint of that mechanism on that node only, leaves
\* the membership of the other two mechanisms as it was, and leaves every
\* mechanism of the other node as it was.
C11_Independent ==
    [][(CallMade /\ call'.op \in MechanismOps) =>
          LET e == EndpointOf(call'.op)
              n == call'.node
          IN /\ call'.sent # <<>>
             /\ \A i \in DOMAIN call'.sent :
                   call'.sent[i].path = e /\ call'.sent[i].node = n
             /\ e # P_Replicators => reps' = reps
             /\ e # P_Collections => pcols' = pcols
             /\ e # P_Documents => pdocs' = pdocs
             /\ reps'[Other(n)] = reps[Other(n)]
             /\ pcols'[Other(n)] = pcols[Other(n)]
             /\ pdocs'[Other(n)] = pdocs[Other(n)]]_vars

\* An accepted add of documents on a node that holds a replicator or a
\* gated collection already.
C11_Witness ==
    /\ nCalls = 2
    /\ call.op = "add_peer_documents" /\ call.answer = "accepted"
    /\ pdocs[call.node] = Range(call.args.names)
    /\ reps[call.node] \cup pcols[call.node] # {}

\* The body of the one request of call c, as the node decodes it.
SentBody(c) == ParseJson(c.sent[1].body)

\* The strings of a JSON array, in order.
StringSeq(v) == [i \in DOMAIN v.e |-> v.e[i].s]

IsStringSeq(v) == v.t = "seq" /\ \A i \in DOMAIN v.e : v.e[i].t = "str"

SyncCalled == call.op = "sync_documents"

\* The body of the forced-sync request of call c names the collection and
\* the identifiers that were given, in the order given.
SyncBodyExact(c) ==
    /\ Len(c.sent) = 1
    /\ c.sent[1].method = "POST"
    /\ c.sent[1].path = P_Sync
    /\ c.sent[1].node = c.node
    /\ SentBody(c).ok /\ SentBody(c).val.t = "map"
    /\ LET m == SentBody(c).val.m
       IN /\ FieldOk(m, F_collectionName)
          /\ Field(m, F_collectionName) = c.args.collection_name
          /\ Len(ValuesOf(m, F_docIDs)) = 1
          /\ IsStringSeq(ValuesOf(m, F_docIDs)[1])
          /\ StringSeq(ValuesOf(m, F_docIDs)[1]) = c.args.names

\* C17: sync_documents sends exactly one forced-sync request, whose body
\* carries exactly the given collection name and exactly the given docIDs
\* in the given order, and the replicators and both gating sets of every
\* node are the same after the call as before it, whatever the answer.
C17_SyncFrame ==
    [][(CallMade /\ call'.op = "sync_documents") =>
          /\ SyncBodyExact(call')
          /\ reps' = reps /\ pcols' = pcols /\ pdocs' = pdocs]_vars

\* An accepted forced sync of two documents on a node that holds a
\* replicator or a gated collection or document.
C17_Witness ==
    /\ nCalls = 2 /\ SyncCalled /\ call.answer = "accepted"
    /\ call.args.names = <<DOC2, DOC1>>
    /\ reps[call.node] \cup pcols[call.node] \cup pdocs[call.node] # {}

\* C19: the body of the forced-sync request carries the timeout that was
\* given, as the one member timeout, unchanged; when none was given the
\* body has no member timeout at all.
C19_TimeoutPassedThrough ==
    SyncCalled =>
        /\ SentBody(call).ok /\ SentBody(call).val.t = "map"
        /\ LET ts == ValuesOf(SentBody(call).val.m, F_timeout)
           IN IF call.args.timeout.some
              THEN ts = <<[t |-> "str", s |-> call.args.timeout.v]>>
              ELSE ts = <<>>

\* A forced sync without a timeout.
C19_Witness ==
    /\ SyncCalled /\ ~call.args.timeout.some
    /\ ~contains(call.sent[1].body, F_timeout)

\* A forced sync with the timeout "30s".
C19_WitnessGiven ==
    /\ SyncCalled /\ call.args.timeout = Some(TXT_30s)
    /\ contains(call.sent[1].body, SerField(F_timeout, SerString(TXT_30s)))

SyncFailures == {"unreachable", "rejected", "timeout"}

----------------------------------------------------------------------------
(* C16: nothing is sent twice                                              *)

\* The step of main whose request is the i-th entry of the log.
IssuedAt(i) == log[i].at

\* The entries of the log that are requests.
Requests == {i \in DOMAIN log : log[i].kind # "sleep"}

----------------------------------------------------------------------------
(* C18: the Ok of sync_documents is not the presence of the document       *)


\* main has just sent one GraphQL query and called no wrapper.
Queried ==
    /\ Len(log') = Len(log) + 1
    /\ log'[Len(log')].path = P_GraphQL
    /\ call' = call

\* C18: what main reports about the presence of a document changes only in
\* a step that sends a data query, never in the step in which
\* sync_documents returns; and a count or a replication line is reported
\* only for a 200 answer that carries the rows, the count being positive
\* exactly when the node answered with a row.
C18_PresenceFromQuery ==
    [][/\ (call' # call /\ call'.op = "sync_documents") => verdict' = verdict
       /\ verdict' # verdict =>
             /\ Queried
             /\ verdict'.outcome \in {"counted", "replicated", "notSynced"} =>
                   /\ verdict'.answer = "rows"
                   /\ (verdict'.count > 0) = verdict'.present]_vars

\* sync_documents returned Ok(()) and the query made after it on the same
\* node found no Message there.
C18_Witness ==
    /\ call.op = "sync_documents" /\ call.outcome = Returned
    /\ verdict.at \in DOMAIN Program
    /\ Program[verdict.at].coll = MESSAGE
    /\ Program[verdict.at].node = call.node
    /\ verdict.outcome = "counted" /\ verdict.count = 0 /\ ~verdict.present

----------------------------------------------------------------------------
(* C12: when main queries for replicated documents                         *)

\* The entries of the log that are queries of a verification: the counts of
\* steps 8 and 9 and the checks of step 11.
IsPoll(i) == log[i].kind # "sleep" /\ Program[log[i].at].op \in {"count", "check"}

Polls == {i \in DOMAIN log : IsPoll(i)}

\* The queries sent by step at of main.
PollsOf(at) == {i \in Polls : log[i].at = at}

\* The first query of a verification: a query that does not follow another.
FirstPolls == {i \in Polls : i = 1 \/ ~IsPoll(i - 1)}

----------------------------------------------------------------------------
(* C13: a check of a document that never arrives                           *)

\* The answers that are failures of the transport: no answer at all, and
\* an answer whose body cannot be read to its end.
TransportFailures == {"unreachable", "unread"}

\* The last query was a check of step 11 for a document the node does not
\* hold, and the node was reached.
AbsentChecked ==
    /\ verdict.at \in DOMAIN Program
    /\ Program[verdict.at].op = "check"
    /\ ~verdict.present
    /\ verdict.answer \notin TransportFailures

AbsentOutcome ==
    /\ Cardinality(PollsOf(verdict.at)) = 1
    /\ verdict.answer = "rows" => verdict.outcome = "notSynced" /\ exit # "err"
    /\ verdict.answer \in {"noData", "rejected"} =>
          verdict.outcome = "silent" /\ exit # "err"
    /\ verdict.answer = "garbled" => verdict.outcome = "raised" /\ exit = "err"

----------------------------------------------------------------------------
(* C14: main ended from outside                                            *)

\* main was ended after a query of a verification, with steps still to come.
KilledAfterPoll ==
    /\ exit = "killed"
    /\ verdict.at \in DOMAIN Program
    /\ mpc \in DOMAIN Program

----------------------------------------------------------------------------
(* C15: what a check raises                                                *)

\* The last query was a check of step 11.
Checked == verdict.at \in DOMAIN Program /\ Program[verdict.at].op = "check"

\* C15, as the claim states it: a check raises when, and only when, the
\* transport failed, and an empty result is reported as not converged.
C15_TransportPropagates ==
    Checked =>
       /\ (verdict.answer \in TransportFailures) = (exit = "err")
       /\ verdict.answer = "rows" /\ ~verdict.present =>
             verdict.outcome = "notSynced"

\* C15, amended: a check raises when, and only when, the body of a 200
\* answer cannot be read or is not JSON; a request that could not be sent
\* is printed as an error and main goes on; an empty result is reported as
\* "not yet synced" and does not raise.
C15_OnlyBodyRaises ==
    Checked =>
       /\ (exit = "err") = (verdict.answer \in {"garbled", "unread"})
       /\ (exit = "err") = (verdict.outcome = "raised")
       /\ verdict.answer = "unreachable" => verdict.outcome = "printedError"
       /\ verdict.answer = "rows" /\ ~verdict.present =>
             verdict.outcome = "notSynced"

\* The node of the first check could not be reached, and main went on to
\* the second check.
C15_Witness ==
    /\ Checked /\ verdict.answer = "unreachable"
    /\ verdict.outcome = "printedError"
    /\ exit = "run" /\ mpc > verdict.at

----------------------------------------------------------------------------
(* C21: the outcomes of get_peer_info                                      *)

\* The answers to GET /p2p/info whose body is not one of the shapes the
\* client decodes: neither {ID, Addresses} on 200 nor {error} otherwise.
UndecodableInfo == {"garbled", "gateway"}

\* C21: get_peer_info returns the failure of the request when the node
\* cannot be reached; for an answer whose body cannot be decoded it returns
\* an error that says so and differs from the former; for a 200 answer
\* with a decodable body it returns the id and the addresses the node sent.
C21_PeerInfoOutcomes ==
    call.op = "get_peer_info" =>
       /\ call.answer = "unreachable" =>
             call.outcome = Failed(TXT_RequestFailed \o TXT_SendError)
       /\ call.answer \in UndecodableInfo =>
             /\ call.outcome.kind = "err"
             /\ starts_with(call.outcome.msg, TXT_ParsePeerInfo)
       /\ call.answer = "accepted" => call.outcome = OkWith(Peer(call.node))

----------------------------------------------------------------------------
(* C22: removing a replicator the node does not hold                       *)

\* remove_replicator was called for collections of which the node holds no
\* replicator after the call, and the node answered the removal itself.
RemovedAbsent ==
    /\ call.op = "remove_replicator"
    /\ Range(call.args.names) \cap reps[call.node] = {}
    /\ call.answer \in {"accepted", "absent"}

\* C22, as the claim states it: a removal after which the replicator is
\* absent is reported as success.
C22_AbsentIsSuccess == RemovedAbsent => call.outcome = Returned

\* C22, amended: remove_replicator reports what the node answered and
\* nothing else: Ok(()) exactly for a 200 answer, and for a node that
\* reports the replicator as not found an Err with the message of the
\* node, whether or not the replicator is absent after the call.
C22_RemoveReportsAnswer ==
    call.op = "remove_replicator" =>
       /\ (call.outcome = Returned) = (call.answer = "accepted")
       /\ call.answer = "absent" => call.outcome = Failed(MSG_Absent)

\* A second call removed a replicator that the node does not hold, the
\* node reported it as not found, and the call returned that as an Err.
C22_Witness ==
    /\ RemovedAbsent /\ call.answer = "absent"
    /\ call.outcome = Failed(MSG_Absent)
    /\ nCalls = 2

----------------------------------------------------------------------------
(* C23: the replicators a node holds                                       *)

\* Every replicator of node n has collections, and no two of them target
\* the same peer.
WellFormed(n) ==
    \A i \in DOMAIN replicators[n] :
       /\ replicators[n][i].collections # {}
       /\ \A j \in DOMAIN replicators[n] :
             replicators[n][i].id = replicators[n][j].id => i = j

\* C23: after any sequence of add_replicator and remove_replicator calls,
\* every replicator of every node has a non-empty collection set and each
\* node holds at most one replicator per target peer id; an add the node
\* accepted left exactly one replicator for the peer the caller named,
\* with the collections it named; and an add with no collection does not
\* succeed and leaves the node without a replicator it did not hold.
C23_OnePerPeer ==
    /\ \A n \in Nodes : WellFormed(n)
    /\ call.op = "add_replicator" /\ call.answer = "accepted" =>
          /\ Cardinality(Targeting(replicators[call.node], call.args.peer.id)) = 1
          /\ \A i \in Targeting(replicators[call.node], call.args.peer.id) :
                Range(call.args.names) \subseteq replicators[call.node][i].collections
    /\ call.op = "add_replicator" /\ call.args.names = <<>> =>
          call.outcome # Returned

\* A second add for the same peer was merged into the replicator of the
\* first: the node holds one replicator, with both collections.
C23_Witness ==
    /\ call.op = "add_replicator" /\ call.outcome = Returned
    /\ call.args.names = <<PRODUCT>> /\ nCalls = 2
    /\ Len(replicators[call.node]) = 1
    /\ replicators[call.node][1].collections = {USER, PRODUCT}

----------------------------------------------------------------------------
(* C24: the Status of a listed replicator                                  *)

\* list_replicators was called on a node that holds replicators and
\* answered with their list.
Listed ==
    /\ call.op = "list_replicators" /\ call.answer = "accepted"
    /\ replicators[call.node] # <<>>

\* The call returned the replicators of the node, each with the Status the
\* node sent.
StatusReturned ==
    /\ call.outcome.kind = "ok"
    /\ Len(call.outcome.val) = Len(replicators[call.node])
    /\ \A i \in DOMAIN call.outcome.val :
          /\ call.outcome.val[i].status = call.told
          /\ call.outcome.val[i].info.id = replicators[call.node][i].id

\* C24, as the claim states it: for every integer the node sends as Status
\* the call succeeds and returns that value unchanged.
C24_AnyInteger == Listed => StatusReturned

\* C24, amended: for every Status from 0 to 255 the call succeeds and
\* returns that value unchanged; for an integer outside this range the
\* call fails with "Failed to parse replicators".
C24_StatusU8 ==
    Listed =>
       IF call.told \in 0..255 THEN StatusReturned
       ELSE call.outcome = Failed(TXT_ParseReplicators \o TXT_BodyError)

\* The node listed a replicator with Status 255 and the call returned it.
C24_Witness ==
    /\ Listed /\ call.told = 255
    /\ call.outcome.kind = "ok" /\ call.outcome.val[1].status = 255

----------------------------------------------------------------------------
(* C25: calls on the two nodes run concurrently                            *)

Finished == \A n \in Nodes : tasks[n].at > Len(tasks[n].program)

\* The outcome of the sequential run of the two programs.
SequentialRun ==
    Sequentially([n \in Nodes |-> tasks[n].program], 1, 1,
                 [held |-> [n \in Nodes |-> {}],
                  results |-> [n \in Nodes |-> <<>>]])

----------------------------------------------------------------------------
(* C26: nothing is configured without the peer information of both nodes   *)

InfoFailed == call.op = "get_peer_info" /\ call.outcome.kind # "ok"

\* The steps of main after step 1.
Configures(i) == Program[i].op \notin {"schema", "get_peer_info"}

\* The peer identity the add_replicator request of the last call carries.
PeerSent == ParamsId(ParseJson(call.sent[1].body))

\* C26: when get_peer_info fails for node 1 or for node 2, main has ended
\* and sends nothing more; every request and sleep of a later step comes
\* after both nodes answered get_peer_info successfully, and the identity
\* an add_replicator request carries is the one the target node gave.
C26_NothingWithoutPeerInfo ==
    /\ [](/\ InfoFailed => exit \in {"ok", "panic"}
          /\ \A i \in DOMAIN log :
                Configures(log[i].at) => \A n \in Nodes : peers[n] = Peer(n)
          /\ call.op = "add_replicator" =>
                /\ PeerSent = peers[Other(call.node)].id
                /\ PeerSent = Peer(Other(call.node)).id)
    /\ [][InfoFailed => log' = log]_vars

\* Node 1 gave its peer information, node 2 refused, and main has ended with
\* the two requests of step 1 as the last it sent.
C26_Witness ==
    /\ InfoFailed /\ call.node = 2 /\ call.outcome.kind = "err"
    /\ peers[1] = Peer(1) /\ peers[2] = NoPeer
    /\ exit = "ok"
    /\ log[Len(log)].path = P_Info

----------------------------------------------------------------------------
(* C27: a failed add_replicator or add_peer_collections                    *)

SetupOps == {"add_replicator", "add_peer_collections"}

\* main is at step 2, 3 or 5 and the wrapper it calls does not return Ok.
SetupFails == Running /\ Here.op \in SetupOps /\ call'.outcome.kind # "ok"

\* main goes on to the step that follows in the failure-free run.
GoesOn == exit' = "run" /\ mpc' = mpc + 1

\* C27: whatever way add_replicator or add_peer_collections fails, main is
\* not ended by it and goes on to the step that follows in the failure-free
\* run.
C27_FailureDoesNotAbort == [][SetupFails => GoesOn]_vars

\* The same for the failures the wrapper returns as Err.
C27_ErrDoesNotAbort ==
    [][SetupFails /\ call'.outcome.kind = "err" => GoesOn]_vars

----------------------------------------------------------------------------
(* C28: no request carries an empty document identifier                    *)

DocumentOps == {"sync_documents", "add_peer_documents"}

\* The identifier a guarded step of main is about.
NeededBy(i) ==
    IF Program[i].needs = "message" THEN kept_ids.message ELSE kept_ids.product

\* C28: every sync_documents and add_peer_documents request main sends
\* names one document and no empty identifier, and every request and sleep
\* of the manual-sync step and of the document-gating steps comes with a
\* non-empty identifier of the document the step is about.
C28_NoEmptyIdentifier ==
    /\ call.op \in DocumentOps =>
          \A i \in DOMAIN call.sent :
             /\ Named(call.sent[i]) # {}
             /\ <<>> \notin Named(call.sent[i])
    /\ \A i \in DOMAIN log :
          Program[log[i].at].needs # "none" => NeededBy(log[i].at) # <<>>

\* The node answered the creation of the Message with an empty _docID and
\* that of the Product with an identifier: main is past step 9 and the
\* Message part of step 10 with no request of those steps sent, and has
\* gated the Product document.
C28_Witness ==
    /\ kept_ids.message = <<>> /\ kept_ids.product = DOC2
    /\ call.op = "add_peer_documents" /\ call.args.names = <<DOC2>>
    /\ \A i \in DOMAIN log : Program[log[i].at].needs # "message"

----------------------------------------------------------------------------
(* C30: the identifiers of a successful result                             *)

Succeeded == pc = "done" /\ result.ok

\* C30: every identifier of a successful result of get_document_ids is a
\* non-empty string.
C30_NoEmptyIdentifier ==
    Succeeded => \A i \in DOMAIN result.ids : result.ids[i] # <<>>

----------------------------------------------------------------------------
(* C29: the use of the decoded identifiers by main                         *)

\* A request for one document is sent in this step.
Uses == Len(colmain'.used) = Len(colmain.used) + 1

\* C29: main sends a request for one document only when the listing before
\* it returned Ok with at least one identifier, and the request is for the
\* first identifier of that result: GET at step 4, PATCH at step 5, DELETE
\* at step 8; no other step sends one.
C29_FirstIdentifierOnly ==
    [][/\ colmain'.used # colmain.used => Uses
       /\ Uses =>
            /\ result.ok /\ result.ids # <<>>
            /\ colmain'.used[Len(colmain'.used)].url =
                  DocumentUrl(USER, result.ids[1])
            /\ colmain'.used[Len(colmain'.used)].method =
                  (CASE CollHere = "get_document" -> "GET"
                     [] CollHere = "update_document" -> "PATCH"
                     [] CollHere = "delete_document" -> "DELETE"
                     [] OTHER -> "none")]_vars

\* The listing of step 3 returned two different identifiers, and main has
\* sent the GET for the first of them.
C29_Witness ==
    /\ colmain.at = 5 /\ Len(colmain.used) = 1
    /\ result.ok /\ Len(result.ids) >= 2 /\ result.ids[1] # result.ids[2]
    /\ colmain.used[1] =
          [method |-> "GET", url |-> DocumentUrl(USER, result.ids[1])]

====
